---- MODULE Spec2Model ----
(***************************************************************************)
(* A model of the weekly availability grid (GYUM17/scheduler): the single  *)
(* page component Home of src/unnamed/part_000 together with the row store  *)
(* it talks to.                                                             *)
(*                                                                          *)
(* Conventions.                                                             *)
(*  - A JavaScript object of type Record<string, true> is modelled as the   *)
(*    sequence of its own keys in insertion order (what Object.keys         *)
(*    returns); the values carry no information.                            *)
(*  - Time is counted in hours since the Unix epoch instead of              *)
(*    milliseconds; every instant the model uses is a whole hour.           *)
(*  - React state is kept twice: the value of the last committed render     *)
(*    (what closures, effects and the DOM see) and the value the queued     *)
(*    updaters will produce at the next render ("pending").                 *)
(***************************************************************************)
EXTENDS Integers, Sequences, FiniteSets, TLC

(***************************************************************************)
(* Program constants.                                                       *)
(***************************************************************************)
DAY_COUNT == 7
START_HOUR == 16
END_HOUR == 24
SLOT_MINUTES == 30
SLOT_COUNT == ((END_HOUR - START_HOUR) * 60) \div SLOT_MINUTES
DURATION_OPTIONS == {30, 60, 90, 120}
KST_OFFSET_H == 9
WEEK_START_DAY == 0
TOUCH_GESTURE_START_PX == 10
\* TOUCH_GESTURE_AXIS_RATIO = 1.2 as the fraction AXIS_RATIO_NUM / AXIS_RATIO_DEN
AXIS_RATIO_NUM == 12
AXIS_RATIO_DEN == 10
TEAM_CODE == "online-ministry-team"

(***************************************************************************)
(* Bounds of the model.                                                     *)
(***************************************************************************)
\* the pointer reaches the first MaxCells cells of day 0 (slots 0..MaxCells-1)
MaxCells == 2
\* requests (fetches, writes) and tap timers that may be outstanding at once
MaxInFlight == 1
\* presses of the primary pointer on a cell in one run
MaxGestures == 1

(***************************************************************************)
(* Time-grid model.                                                         *)
(***************************************************************************)
Days == 0 .. (DAY_COUNT - 1)
Slots == 0 .. (SLOT_COUNT - 1)

keyFor(day, slot) == ToString(day) \o "-" \o ToString(slot)

Grid == Days \X Slots
GridKeys == {keyFor(c[1], c[2]) : c \in Grid}

Max(a, b) == IF a >= b THEN a ELSE b
Abs(a) == IF a < 0 THEN -a ELSE a
Range(s) == {s[i] : i \in 1 .. Len(s)}

(***************************************************************************)
(* Record<string, true> as the sequence of its keys in insertion order.     *)
(***************************************************************************)
ObjHas(obj, key) == \E i \in 1 .. Len(obj) : obj[i] = key
ObjSet(obj, key) == IF ObjHas(obj, key) THEN obj ELSE Append(obj, key)
ObjDelete(obj, key) == SelectSeq(obj, LAMBDA k : k # key)

\* The order in which a jsonb object comes back from the row store: shorter
\* keys first, keys of equal length bytewise. For the keys keyFor produces
\* (one-digit day) those are the keys of the one-digit slots, day by day, and
\* after them the keys of the two-digit slots, day by day.
GridByJsonbRank ==
  LET short == IF SLOT_COUNT < 10 THEN SLOT_COUNT ELSE 10
      long == SLOT_COUNT - short
  IN  [ n \in 1 .. (DAY_COUNT * SLOT_COUNT) |->
          IF n <= DAY_COUNT * short
          THEN keyFor((n - 1) \div short, (n - 1) % short)
          ELSE keyFor((n - 1 - DAY_COUNT * short) \div long,
                      short + ((n - 1 - DAY_COUNT * short) % long)) ]

\* the object holding exactly the keys of the set S, as the row store returns it
JsonbObject(S) == SelectSeq(GridByJsonbRank, LAMBDA k : k \in S)

(***************************************************************************)
(* Timestamps: updated_at is null, a string that does not parse, or a       *)
(* string that parses to an instant.                                        *)
(***************************************************************************)
TsNull == [kind |-> "null", valid |-> FALSE, ms |-> 0]
TsBad == [kind |-> "string", valid |-> FALSE, ms |-> 0]
TsAt(t) == [kind |-> "string", valid |-> TRUE, ms |-> t]
\* an updated_at that is a number, and one that is missing
TsNumber == [kind |-> "number", valid |-> FALSE, ms |-> 0]
TsUndefined == [kind |-> "undefined", valid |-> FALSE, ms |-> 0]

\* new Date(s).getTime(): the instant, or NaN
DateGetTime(ts) == [nan |-> ~ts.valid, ms |-> ts.ms]

\* the start of the week of the UTC calendar, without the shift to KST
getKstWeekStartMsInUtc(nowH) ==
  LET dayIndex == nowH \div 24
      dayOfWeek == (dayIndex + 4) % 7
      diff == (dayOfWeek - WEEK_START_DAY + 7) % 7
  IN  (dayIndex - diff) * 24

getKstWeekStartMs(nowH) ==
  LET shifted == nowH + KST_OFFSET_H
      dayIndex == shifted \div 24
      \* 1970-01-01 was a Thursday (getUTCDay = 4)
      dayOfWeek == (dayIndex + 4) % 7
      diff == (dayOfWeek - WEEK_START_DAY + 7) % 7
  IN  (dayIndex - diff) * 24 - KST_OFFSET_H

\* a boundary test that also counts the boundary itself as the week before
isStaleWeekInclusive(updatedAt, weekStartMs) ==
  IF updatedAt.kind = "null" THEN TRUE
  ELSE LET parsed == DateGetTime(updatedAt)
       IN  IF parsed.nan THEN TRUE ELSE parsed.ms <= weekStartMs

isStaleWeek(updatedAt, weekStartMs) ==
  IF updatedAt.kind = "null" THEN TRUE
  ELSE LET parsed == DateGetTime(updatedAt)
       IN  IF parsed.nan THEN TRUE ELSE parsed.ms < weekStartMs

(***************************************************************************)
(* Rows of team_members and their materialisation.                          *)
(* A row's cells payload is a JSON value: an object (its entries in the     *)
(* order the store returns them, val being the truthiness of the entry's    *)
(* value), an array (Object.entries lists its elements under their          *)
(* indices), null, a string, a number, a boolean, or nothing (undefined).   *)
(* A row as the client receives it is a record of its fields; strings names *)
(* the fields among id, user_id, display_name and last_editor whose value   *)
(* is a string (the other fields hold something else or are missing), null  *)
(* tells that the row itself is null.                                       *)
(***************************************************************************)
JsonObject(entries) == [type |-> "object", entries |-> entries]
JsonArray(items) ==
  [ type |-> "array",
    entries |-> [i \in 1 .. Len(items) |-> [key |-> ToString(i - 1), val |-> items[i]]] ]
JsonNull == [type |-> "null", entries |-> <<>>]
JsonUndefined == [type |-> "undefined", entries |-> <<>>]
JsonScalar(type) == [type |-> type, entries |-> <<>>]

\* string | null
StrNull == [null |-> TRUE, str |-> ""]
Str(s) == [null |-> FALSE, str |-> s]

StringFields == {"id", "user_id", "display_name", "last_editor"}
\* the placeholder of 141, a Korean text that says the name is not set
PLACEHOLDER_NAME == "(name not set)"

\* row ?? {} of 135: every field of the empty object is undefined
EmptyObject ==
  [ null |-> FALSE, strings |-> {}, id |-> "", user_id |-> "", display_name |-> "",
    mode |-> "", cells |-> JsonUndefined, last_editor |-> "",
    updated_at |-> TsUndefined ]

\* the payload {key: true, ...} for the keys of the set S
CellsPayload(S) ==
  LET keys == JsonbObject(S)
  IN  JsonObject([i \in 1 .. Len(keys) |-> [key |-> keys[i], val |-> TRUE]])

\* !value || typeof value !== "object" of 120: null is falsy; typeof gives
\* "object" for objects and arrays
sanitizeCells(value) ==
  IF value.type \notin {"object", "array"} THEN <<>>
  ELSE LET RECURSIVE Walk(_, _)
           Walk(i, result) ==
             IF i > Len(value.entries) THEN result
             ELSE Walk(i + 1, IF value.entries[i].val
                              THEN ObjSet(result, value.entries[i].key)
                              ELSE result)
       IN  Walk(1, <<>>)

\* a materialisation that keeps the payload of a row in legacy mode
toMemberKeepingCells(row) ==
  LET data == IF row.null THEN EmptyObject ELSE row
  IN  [ id |-> IF "id" \in data.strings THEN data.id ELSE "",
        user_id |-> IF "user_id" \in data.strings THEN data.user_id ELSE "",
        display_name |-> IF "display_name" \in data.strings
                         THEN data.display_name ELSE PLACEHOLDER_NAME,
        cells |-> sanitizeCells(data.cells),
        updated_at |-> IF data.updated_at.kind = "string"
                       THEN data.updated_at ELSE TsNull,
        last_editor |-> IF "last_editor" \in data.strings
                        THEN Str(data.last_editor) ELSE StrNull,
        is_stale |-> FALSE,
        is_legacy_unavailable_mode |-> data.mode = "unavailable" ]

toMember(row) ==
  LET data == IF row.null THEN EmptyObject ELSE row
      legacyUnavailable == data.mode = "unavailable"
  IN  [ id |-> IF "id" \in data.strings THEN data.id ELSE "",
        user_id |-> IF "user_id" \in data.strings THEN data.user_id ELSE "",
        display_name |-> IF "display_name" \in data.strings
                         THEN data.display_name ELSE PLACEHOLDER_NAME,
        cells |-> IF legacyUnavailable THEN <<>> ELSE sanitizeCells(data.cells),
        updated_at |-> IF data.updated_at.kind = "string"
                       THEN data.updated_at ELSE TsNull,
        last_editor |-> IF "last_editor" \in data.strings
                        THEN Str(data.last_editor) ELSE StrNull,
        is_stale |-> FALSE,
        is_legacy_unavailable_mode |-> legacyUnavailable ]

isAvailable(member, key) == ObjHas(member.cells, key)

\* a comparison that asks for the same keys in the same order of insertion
sameCellsInOrder(left, right) == left = right

sameCells(left, right) ==
  IF Len(left) # Len(right) THEN FALSE
  ELSE \A i \in 1 .. Len(left) : ObjHas(right, left[i])

\* an updater that flips the cell whatever the value
paintCellToggle(previous, key, value) ==
  IF ObjHas(previous, key) THEN ObjDelete(previous, key)
  ELSE ObjSet(previous, key)

\* the updater paintCell hands to setDraftCells
paintCellUpdater(previous, key, value) ==
  LET currentlyMarked == ObjHas(previous, key)
  IN  IF currentlyMarked = value THEN previous
      ELSE IF value THEN ObjSet(previous, key)
      ELSE ObjDelete(previous, key)

\* a refresh that presents every row as it is stored
refreshMembersUnmarked(data, weekStartMs) ==
  [ i \in 1 .. Len(data) |-> [toMember(data[i]) EXCEPT !.is_stale = FALSE] ]

\* what fetchMembers makes of the rows it was sent
refreshMembers(data, weekStartMs) ==
  [ i \in 1 .. Len(data) |->
      LET member == toMember(data[i])
      IN  IF isStaleWeek(member.updated_at, weekStartMs)
          THEN [member EXCEPT !.cells = <<>>, !.is_stale = TRUE]
          ELSE [member EXCEPT !.is_stale = FALSE] ]

(***************************************************************************)
(* Aggregation engine: the useMemo chain from membersForCalculation to      *)
(* recommendedBlocks, as functions of what each memo reads.                 *)
(***************************************************************************)
\* the members as fetched, without the draft of the local user
membersAsFetched(mem, uid, draft) == mem

membersForCalculation(mem, uid, draft) ==
  [ i \in 1 .. Len(mem) |->
      IF mem[i].user_id = uid THEN [mem[i] EXCEPT !.cells = draft] ELSE mem[i] ]

availabilityCountByCell(mfc) ==
  LET RECURSIVE Reduce(_, _, _)
      Reduce(i, count, key) ==
        IF i > Len(mfc) THEN count
        ELSE Reduce(i + 1, count + (IF isAvailable(mfc[i], key) THEN 1 ELSE 0), key)
  IN  [ key \in GridKeys |-> Reduce(1, 0, key) ]

\* the keys in the order of the loops: day by day, slot by slot
GridInLoopOrder ==
  [ n \in 1 .. (DAY_COUNT * SLOT_COUNT) |->
      keyFor((n - 1) \div SLOT_COUNT, (n - 1) % SLOT_COUNT) ]

\* the selection without the guard for the empty member list
commonCellsUnguarded(counts, memberCount) ==
  SelectSeq(GridInLoopOrder, LAMBDA key : counts[key] = memberCount)

commonCells(counts, memberCount) ==
  IF memberCount = 0 THEN <<>>
  ELSE SelectSeq(GridInLoopOrder, LAMBDA key : counts[key] = memberCount)

commonCellCount(common) == Len(common)

\* a minimum that asks for one slot more
minSlotsAbove(minDuration) == Max(1, minDuration \div SLOT_MINUTES) + 1

\* Math.max(1, Math.floor(minimumDuration / SLOT_MINUTES)) of 1012
minSlotsFor(minDuration) == Max(1, minDuration \div SLOT_MINUTES)

\* a test whose sentinel looks at the first slot of the next day
isCommonSlotAcrossDays(common, day, slot) ==
  IF slot < SLOT_COUNT THEN ObjHas(common, keyFor(day, slot))
  ELSE day + 1 < DAY_COUNT /\ ObjHas(common, keyFor(day + 1, 0))

\* the test of 1018: slot SLOT_COUNT is the sentinel that closes the day
isCommonSlot(common, day, slot) ==
  slot < SLOT_COUNT /\ ObjHas(common, keyFor(day, slot))

recommendedBlocks(common, memberCount, minDuration) ==
  IF memberCount = 0 THEN <<>>
  ELSE
    LET minSlots == minSlotsFor(minDuration)
        block(day, start, slot) ==
          [ day |-> day, startSlot |-> start, endSlot |-> slot,
            minutes |-> (slot - start) * SLOT_MINUTES ]
        \* one turn of the inner loop, then the turns that follow
        RECURSIVE ScanSlot(_, _, _, _)
        ScanSlot(day, slot, start, blocks) ==
          IF slot > SLOT_COUNT THEN blocks
          ELSE IF isCommonSlot(common, day, slot)
          THEN ScanSlot(day, slot + 1, IF start < 0 THEN slot ELSE start, blocks)
          ELSE IF start < 0 THEN ScanSlot(day, slot + 1, -1, blocks)
          ELSE IF slot - start >= minSlots
          THEN ScanSlot(day, slot + 1, -1, Append(blocks, block(day, start, slot)))
          ELSE ScanSlot(day, slot + 1, -1, blocks)
        \* the blocks a day pushes come after those of the days before
        RECURSIVE ScanDay(_, _)
        ScanDay(day, blocks) ==
          IF day >= DAY_COUNT THEN blocks
          ELSE ScanDay(day + 1, blocks \o ScanSlot(day, 0, -1, <<>>))
    IN  ScanDay(0, <<>>)

(***************************************************************************)
(* The texts of the status line, in English for the Korean of the source.  *)
(***************************************************************************)
\* 452, 466, 477, 547, 658, 724, 1080
STATUS_CONNECTED == "connected"
\* 499
STATUS_FETCH_FAILED == "team data query failed"
\* 553
STATUS_REALTIME_FAILED == "realtime connection failed"
\* 588
STATUS_OWN_ROW_FAILED == "own row check failed"
\* 616
STATUS_WEEKLY_RESET_FAILED == "weekly reset failed"
\* 626, 1620
STATUS_VIEW_ONLY == "view-only mode"
\* 632
STATUS_FIRST_VISIT == "first visit, enter a name"
\* 651
STATUS_INSERT_FAILED == "own row creation failed"
\* 720
STATUS_SAVE_FAILED == "save failed"
\* 1073
STATUS_NAME_FAILED == "name save failed"
\* 1106, 1120-1122, 1129
STATUS_DELETING == "deleting all users"
STATUS_DELETE_FAILED == "delete all users failed"
STATUS_DELETED == "all users deleted"
\* 1146, 1160-1162, 1167
STATUS_RESETTING == "resetting all schedules"
STATUS_RESET_FAILED == "reset all failed"
STATUS_RESET_DONE == "all schedules reset"

(***************************************************************************)
(* The state of one session (the Home component of the local user) and of   *)
(* the row store.                                                           *)
(***************************************************************************)
VARIABLES
  \* React state, as of the last committed render
  userId, members, selectedMemberId, isMobileViewport, mobileSection,
  mobileEditEnabled, paintMode, minimumDuration, currentWeekStartMs,
  draftCells, drawing, touchGesture, isRealtimeSubscribed,
  needsNameSetup, isViewOnlyMode, statusMessage,
  \* draftCells, drawing, touchGesture and isRealtimeSubscribed after the
  \* queued updates
  pending,
  \* refs
  draftCellsRef, touchGestureRef,
  \* timers: the debounce timer of the effect at 755, the tap timers of stopDrawing
  debounceTimer, tapTimers,
  \* the realtime channel of the effect at 521 and the period of its interval
  channel, pollEvery,
  \* the row store, the requests under way and the clock
  rows, writes, fetches, ownRowChecks, now,
  \* history of the current gesture and of the last commit (not program state)
  hist

vars ==
  << userId, members, selectedMemberId, isMobileViewport, mobileSection,
     mobileEditEnabled, paintMode, minimumDuration, currentWeekStartMs,
     draftCells, drawing, touchGesture, pending, draftCellsRef,
     touchGestureRef, debounceTimer, tapTimers, rows, writes, fetches, now,
     hist, isRealtimeSubscribed, channel, pollEvery, ownRowChecks,
     needsNameSetup, isViewOnlyMode, statusMessage >>

\* the whole state as one record, so that a handler and the render that
\* follows it compose
Client ==
  [ userId |-> userId, members |-> members,
    selectedMemberId |-> selectedMemberId,
    isMobileViewport |-> isMobileViewport, mobileSection |-> mobileSection,
    mobileEditEnabled |-> mobileEditEnabled, paintMode |-> paintMode,
    minimumDuration |-> minimumDuration,
    currentWeekStartMs |-> currentWeekStartMs, draftCells |-> draftCells,
    drawing |-> drawing, touchGesture |-> touchGesture, pending |-> pending,
    draftCellsRef |-> draftCellsRef, touchGestureRef |-> touchGestureRef,
    debounceTimer |-> debounceTimer, tapTimers |-> tapTimers, rows |-> rows,
    writes |-> writes, fetches |-> fetches, now |-> now, hist |-> hist,
    isRealtimeSubscribed |-> isRealtimeSubscribed, channel |-> channel,
    pollEvery |-> pollEvery, ownRowChecks |-> ownRowChecks,
    needsNameSetup |-> needsNameSetup, isViewOnlyMode |-> isViewOnlyMode,
    statusMessage |-> statusMessage ]

Put(c) ==
  /\ userId' = c.userId
  /\ members' = c.members
  /\ selectedMemberId' = c.selectedMemberId
  /\ isMobileViewport' = c.isMobileViewport
  /\ mobileSection' = c.mobileSection
  /\ mobileEditEnabled' = c.mobileEditEnabled
  /\ paintMode' = c.paintMode
  /\ minimumDuration' = c.minimumDuration
  /\ currentWeekStartMs' = c.currentWeekStartMs
  /\ draftCells' = c.draftCells
  /\ drawing' = c.drawing
  /\ touchGesture' = c.touchGesture
  /\ pending' = c.pending
  /\ draftCellsRef' = c.draftCellsRef
  /\ touchGestureRef' = c.touchGestureRef
  /\ debounceTimer' = c.debounceTimer
  /\ tapTimers' = c.tapTimers
  /\ rows' = c.rows
  /\ writes' = c.writes
  /\ fetches' = c.fetches
  /\ now' = c.now
  /\ hist' = c.hist
  /\ isRealtimeSubscribed' = c.isRealtimeSubscribed
  /\ channel' = c.channel
  /\ pollEvery' = c.pollEvery
  /\ ownRowChecks' = c.ownRowChecks
  /\ needsNameSetup' = c.needsNameSetup
  /\ isViewOnlyMode' = c.isViewOnlyMode
  /\ statusMessage' = c.statusMessage

\* the outstanding requests and timers stay within the bound of the model
Fits(c) ==
  /\ Len(c.writes) <= MaxInFlight
  /\ Len(c.fetches) <= MaxInFlight
  /\ Len(c.tapTimers) <= MaxInFlight
  /\ Len(c.ownRowChecks) <= MaxInFlight

\* a step to the state c
Step(c) == Fits(c) /\ Put(c)

(***************************************************************************)
(* Values derived in the render.                                            *)
(***************************************************************************)
\* members.find(member => member.user_id === userId): its index, 0 if none
myMemberIndex(c) ==
  IF \E i \in 1 .. Len(c.members) : c.members[i].user_id = c.userId
  THEN CHOOSE i \in 1 .. Len(c.members) :
         /\ c.members[i].user_id = c.userId
         /\ \A j \in 1 .. (i - 1) : c.members[j].user_id # c.userId
  ELSE 0

hasMyMember(c) == myMemberIndex(c) > 0

resolvedSelectedMemberId(c) ==
  IF \E i \in 1 .. Len(c.members) : c.members[i].id = c.selectedMemberId
  THEN c.selectedMemberId
  ELSE IF hasMyMember(c) THEN c.members[myMemberIndex(c)].id
  ELSE IF Len(c.members) > 0 THEN c.members[1].id
  ELSE ""

selectedMemberIndex(c) ==
  LET wanted == resolvedSelectedMemberId(c)
  IN  IF \E i \in 1 .. Len(c.members) : c.members[i].id = wanted
      THEN CHOOSE i \in 1 .. Len(c.members) :
             /\ c.members[i].id = wanted
             /\ \A j \in 1 .. (i - 1) : c.members[j].id # wanted
      ELSE 0

canEditSelected(c) ==
  /\ selectedMemberIndex(c) > 0
  /\ c.members[selectedMemberIndex(c)].user_id = c.userId

\* a gate that forgets the edit mode of the mobile layout
isCellInputEnabledByOwnership(c) == canEditSelected(c)

isCellInputEnabled(c) ==
  canEditSelected(c) /\ (~c.isMobileViewport \/ c.mobileEditEnabled)

displayedCells(c) ==
  IF selectedMemberIndex(c) = 0 THEN <<>>
  ELSE IF c.members[selectedMemberIndex(c)].user_id = c.userId THEN c.draftCells
  ELSE c.members[selectedMemberIndex(c)].cells

\* what the closure persistMyCells of a render holds: client is constant,
\* myMember and userId are those of the render
persistClosure(c) ==
  [ hasMember |-> hasMyMember(c),
    cells |-> IF hasMyMember(c) THEN c.members[myMemberIndex(c)].cells ELSE <<>>,
    display_name |->
      IF hasMyMember(c) THEN c.members[myMemberIndex(c)].display_name ELSE "",
    userId |-> c.userId ]

\* the memo chain of the render (955-1041)
Aggregate(c) ==
  LET forCalculation == membersForCalculation(c.members, c.userId, c.draftCells)
      counts == availabilityCountByCell(forCalculation)
      common == commonCells(counts, Len(forCalculation))
  IN  [ membersForCalculation |-> forCalculation,
        availabilityCountByCell |-> counts,
        commonCells |-> common,
        commonCellCount |-> commonCellCount(common),
        recommendedBlocks |->
          recommendedBlocks(common, Len(forCalculation), c.minimumDuration) ]

(***************************************************************************)
(* History kept for the properties.                                         *)
(*   gestures    presses of the primary pointer on a cell so far            *)
(*   down        the primary pointer is held down after a press on a cell   *)
(*   scrolled    the touch gesture under way has been classified scroll     *)
(*   scrollEdit  a pointer-move changed the buffer after that               *)
(*   repaint     paintCell was called for a cell that already had the value *)
(*   ended       stopDrawing ended a drawing that was under way             *)
(*   value       the value the last press computed                          *)
(*   painted     the values paintCell has applied since the last press      *)
(*   commit      the last call of persistMyCells since the last press: who  *)
(*               called; whether the buffer passed and the committed cells  *)
(*               it was compared with hold the same keys, and whether they  *)
(*               list them in the same order; whether a write was issued;   *)
(*               for the commit of a tap that edited, whether the buffer    *)
(*               passed shows the edit                                      *)
(***************************************************************************)
NoTap == [on |-> FALSE, key |-> "", value |-> FALSE]
NoCommit ==
  [ kind |-> "none", sameKeys |-> FALSE, sameOrder |-> FALSE, wrote |-> FALSE,
    tapped |-> FALSE, carriesTap |-> FALSE ]
NoHist ==
  [ gestures |-> 0, down |-> FALSE, scrolled |-> FALSE, scrollEdit |-> FALSE,
    repaint |-> FALSE, ended |-> FALSE, value |-> TRUE, painted |-> {},
    pointerType |-> "mouse", start |-> {}, covered |-> {}, declined |-> "",
    stopped |-> FALSE, expected |-> {}, foreign |-> FALSE, hours |-> 0,
    commit |-> NoCommit ]

(***************************************************************************)
(* State setters called from handlers: they queue, the next render applies. *)
(***************************************************************************)
NoGesture ==
  [ active |-> FALSE, pointerId |-> 0, startX |-> 0, startY |-> 0,
    startDay |-> 0, startSlot |-> 0, value |-> TRUE, mode |-> "pending" ]

setTouchGesture(c, next) == [c EXCEPT !.pending.touchGesture = next]
setDrawing(c, next) == [c EXCEPT !.pending.drawing = next]
setDraftCells(c, next) == [c EXCEPT !.pending.draftCells = next]

(***************************************************************************)
(* persistMyCells (698-727). closure is what the calling closure holds,     *)
(* who and tap are history only. The update is sent; the row store applies  *)
(* it later (ApplyWrite).                                                   *)
(***************************************************************************)
persistMyCells(c, closure, nextCells, who, tap) ==
  LET skip ==
        \/ ~closure.hasMember
        \/ closure.userId = ""
        \/ sameCells(closure.cells, nextCells)
      request ==
        [ kind |-> "cells", user_id |-> closure.userId, cells |-> nextCells,
          last_editor |-> closure.display_name, updated_at |-> TsAt(c.now),
          from |-> "persist", ignore |-> FALSE, auth |-> c.userId ]
      noted ==
        [ kind |-> who,
          sameKeys |-> closure.hasMember /\ Range(nextCells) = Range(closure.cells),
          sameOrder |-> closure.hasMember /\ nextCells = closure.cells,
          wrote |-> ~skip,
          tapped |-> tap.on,
          carriesTap |-> tap.on /\ ((tap.key \in Range(nextCells)) = tap.value) ]
  IN  [c EXCEPT !.writes = IF skip THEN @ ELSE Append(@, request),
                !.hist.commit = noted]

(***************************************************************************)
(* paintCell (729-753). c holds the render whose closure is called; from    *)
(* tells the history which handler calls.                                   *)
(***************************************************************************)
paintCell(c, day, slot, value, from) ==
  IF ~isCellInputEnabled(c) THEN c
  ELSE
    LET key == keyFor(day, slot)
        next == paintCellUpdater(c.pending.draftCells, key, value)
        changed == next # c.pending.draftCells
    IN  [c EXCEPT !.pending.draftCells = next,
                  !.hist.scrollEdit =
                     @ \/ (from = "move" /\ c.hist.scrolled /\ changed),
                  !.hist.repaint = @ \/ ~changed,
                  !.hist.painted = @ \cup {value},
                  !.hist.covered = @ \cup {key},
                  !.hist.expected = IF value THEN @ \cup {key} ELSE @ \ {key}]

(***************************************************************************)
(* handlePointerMove (882-937), the listener of the effect at 861.          *)
(* event = [pointerId, clientX, clientY, found], found being what           *)
(* findCellByPoint returns for the point: [hit, day, slot].                 *)
(***************************************************************************)
\* the tests of 895 and 899
belowStartThreshold(absX, absY) ==
  absX < TOUCH_GESTURE_START_PX /\ absY < TOUCH_GESTURE_START_PX

\* a test of the axes without the ratio
horizontalLarger(absX, absY) == absX > absY

horizontalDominates(absX, absY) ==
  absX * AXIS_RATIO_DEN > absY * AXIS_RATIO_NUM

\* 900-903
classifyScroll(c) ==
  [c EXCEPT !.pending.touchGesture =
              IF @.active THEN [@ EXCEPT !.mode = "scroll"] ELSE @,
            !.hist.scrolled = TRUE]

\* 906-910
classifyPaint(c, gesture) ==
  paintCell(
    [c EXCEPT !.pending.touchGesture =
                IF @.active THEN [@ EXCEPT !.mode = "paint"] ELSE @,
              !.pending.drawing = [active |-> TRUE, value |-> gesture.value]],
    gesture.startDay, gesture.startSlot, gesture.value, "move")

\* 913-924; closure is the render whose paintCell the listener holds
paintFoundByGesture(c, event) ==
  LET latest == c.touchGestureRef
  IN  IF latest.mode = "scroll" THEN c
      ELSE IF ~event.found.hit THEN c
      ELSE paintCell(c, event.found.day, event.found.slot, latest.value, "move")

handlePointerMove(c, event) ==
  LET gesture == c.touchGestureRef
      absX == Abs(event.clientX - gesture.startX)
      absY == Abs(event.clientY - gesture.startY)
      isPending == gesture.mode = "pending"
  IN
  IF gesture.active THEN
    IF gesture.pointerId # 0 /\ event.pointerId # gesture.pointerId THEN c
    ELSE IF isPending /\ belowStartThreshold(absX, absY) THEN c
    ELSE IF isPending /\ horizontalDominates(absX, absY) THEN classifyScroll(c)
    ELSE paintFoundByGesture(IF isPending THEN classifyPaint(c, gesture) ELSE c,
                             event)
  ELSE IF ~c.drawing.active THEN c
  ELSE IF ~event.found.hit THEN c
  ELSE paintCell(c, event.found.day, event.found.slot, c.drawing.value, "move")

(***************************************************************************)
(* stopDrawing (769-814). event = [given, pointerId]: the listeners pass    *)
(* the pointer event, the effect at 816 passes none. c is the render whose  *)
(* closure is called.                                                       *)
(***************************************************************************)
\* the updater of the gesture alone: the drawing is left as it is
resetGestureKeepingDrawing(c, gestureActive) ==
  [c EXCEPT !.pending.touchGesture =
              IF gestureActive /\ @.active THEN NoGesture ELSE @,
            !.hist.scrolled = FALSE,
            !.hist.ended = @ \/ c.drawing.active]

\* 783-801: the two updaters
resetGestureAndDrawing(c, gestureActive) ==
  [c EXCEPT !.pending.touchGesture =
              IF gestureActive /\ @.active THEN NoGesture ELSE @,
            !.pending.drawing =
              IF @.active THEN [active |-> FALSE, value |-> @.value] ELSE @,
            !.hist.scrolled = FALSE,
            !.hist.ended = @ \/ c.drawing.active]

\* 803-811; closure is the render of the call, c the state the updaters left
commitOnStop(closure, c, handledPendingTap) ==
  IF ~canEditSelected(closure) THEN c
  ELSE IF handledPendingTap
  THEN [c EXCEPT !.tapTimers =
          Append(@, [ closure |-> persistClosure(closure),
                      tap |-> [ on |-> isCellInputEnabled(closure),
                                key |-> keyFor(closure.touchGestureRef.startDay,
                                               closure.touchGestureRef.startSlot),
                                value |-> closure.touchGestureRef.value ] ])]
  ELSE persistMyCells(c, persistClosure(closure), closure.draftCellsRef,
                      "stop", NoTap)

\* stopDrawing without the test of the pointer id (773-776)
stopDrawingOfAnyPointer(c, event) ==
  LET gesture == c.touchGestureRef
      handledPendingTap == gesture.active /\ gesture.mode = "pending"
  IN  commitOnStop(
        c,
        resetGestureAndDrawing(
          IF handledPendingTap
          THEN paintCell(c, gesture.startDay, gesture.startSlot, gesture.value, "up")
          ELSE c,
          gesture.active),
        handledPendingTap)

stopDrawing(c, event) ==
  LET gesture == c.touchGestureRef
      handledPendingTap == gesture.active /\ gesture.mode = "pending"
  IN
  IF /\ gesture.active
     /\ event.given
     /\ gesture.pointerId # 0
     /\ event.pointerId # gesture.pointerId
  THEN c
  ELSE commitOnStop(
         c,
         resetGestureAndDrawing(
           IF handledPendingTap
           THEN paintCell(c, gesture.startDay, gesture.startSlot, gesture.value, "up")
           ELSE c,
           gesture.active),
         handledPendingTap)

(***************************************************************************)
(* The row store.                                                           *)
(***************************************************************************)
UserIds == <<"u1", "u2">>

\* a row of the table as the client receives it: the columns are text, but
\* for cells (jsonb) and updated_at
RowJson(row) ==
  [ null |-> FALSE, strings |-> StringFields,
    id |-> row.id, user_id |-> row.user_id, display_name |-> row.display_name,
    mode |-> row.mode, cells |-> row.cells, last_editor |-> row.last_editor,
    updated_at |-> row.updated_at ]

\* the rows of the table: of each user the row and the further rows with
\* the same user_id, if the table holds any
RECURSIVE RowsOfUsers(_, _)
RowsOfUsers(rs, n) ==
  IF n = 0 THEN <<>>
  ELSE RowsOfUsers(rs, n - 1)
         \o (IF rs[UserIds[n]].present
             THEN <<rs[UserIds[n]]>> \o rs[UserIds[n]].more ELSE <<>>)

\* select * from team_members ... order by updated_at desc
RowsData(rs) ==
  LET all == RowsOfUsers(rs, Len(UserIds))
      RECURSIVE Ordered(_)
      Ordered(S) ==
        IF S = {} THEN <<>>
        ELSE LET first == CHOOSE i \in S : \A j \in S :
                   \/ all[i].updated_at.ms > all[j].updated_at.ms
                   \/ /\ all[i].updated_at.ms = all[j].updated_at.ms
                      /\ i <= j
             IN  <<all[first]>> \o Ordered(S \ {first})
      ordered == Ordered(1 .. Len(all))
  IN  [ i \in 1 .. Len(all) |-> RowJson(ordered[i]) ]

\* the id the store gives the row of a user
RowIdOf(u) == IF u = UserIds[1] THEN "m1" ELSE "m2"

\* a table without the constraint
uniqueNotEnforced(rs, request) == FALSE

\* unique (team_code, user_id) of the table (README, 1. SQL): an insert is
\* refused when the user has a row
uniqueViolation(rs, request) == rs[request.user_id].present

\* the request comes back with an error: an insert the policies or the
\* constraint refuse. An update or a delete the policies keep from a row
\* changes no row and reports no error.
writeError(rs, request) ==
  /\ request.kind = "insert"
  /\ request.auth # request.user_id \/ uniqueViolation(rs, request)

\* update ... set of one row, by the kind of request
updatedRow(row, request) ==
  IF request.kind = "cells"
  THEN [row EXCEPT !.cells = CellsPayload(Range(request.cells)),
                   !.last_editor = request.last_editor,
                   !.updated_at = request.updated_at]
  ELSE IF request.kind \in {"reset", "reset_all"}
  THEN [row EXCEPT !.mode = "available",
                   !.cells = CellsPayload({}),
                   !.last_editor = request.last_editor,
                   !.updated_at = request.updated_at]
  ELSE [row EXCEPT !.display_name = request.display_name,
                   !.mode = "available",
                   !.last_editor = request.last_editor,
                   !.updated_at = request.updated_at]

\* update team_members set ... where user_id = ..., by the kind of request:
\* the cells (persistMyCells, 709-717), the weekly or legacy reset
\* (604-613), the display name (1056-1060); or insert into team_members
\* (636-644, 1061-1069); or one of the two procedures of the README, which
\* run for every row of the team whoever calls them. auth is the user of the
\* session that sends the request: the policies of the table let a
\* session insert and update its own row only (README, 1. SQL)
applyUpdate(rs, request) ==
  [ u \in DOMAIN rs |->
      IF request.kind = "delete_all"
      THEN [rs[u] EXCEPT !.present = FALSE, !.more = <<>>]
      ELSE IF request.kind = "reset_all"
      THEN IF ~rs[u].present THEN rs[u]
           ELSE [updatedRow(rs[u], request) EXCEPT
                   !.more = [n \in 1 .. Len(rs[u].more) |->
                               updatedRow(rs[u].more[n], request)]]
      ELSE IF u # request.user_id \/ request.auth # request.user_id THEN rs[u]
      ELSE IF request.kind = "insert"
      THEN LET inserted ==
                 [ present |-> TRUE, id |-> RowIdOf(u), user_id |-> u,
                   display_name |-> request.display_name, mode |-> "available",
                   cells |-> CellsPayload({}), last_editor |-> request.last_editor,
                   updated_at |-> request.updated_at, more |-> <<>> ]
           IN  IF uniqueViolation(rs, request) THEN rs[u]
               ELSE IF rs[u].present
               THEN [rs[u] EXCEPT !.more = Append(@, inserted)]
               ELSE inserted
      ELSE IF ~rs[u].present THEN rs[u]
      ELSE [updatedRow(rs[u], request) EXCEPT
              !.more = [n \in 1 .. Len(rs[u].more) |->
                          updatedRow(rs[u].more[n], request)]] ]

RemoveAt(seq, i) == SubSeq(seq, 1, i - 1) \o SubSeq(seq, i + 1, Len(seq))

(***************************************************************************)
(* A render and the effects that follow it. old is the state of the         *)
(* previous render, c the state with the updates that are queued (pending)  *)
(* and the state the handler set directly; fetched tells that setMembers    *)
(* was called, which gives myMember a new identity.                         *)
(* The render and its effects are one step: a synchronous render (discrete  *)
(* events) runs its effects at once, and between a scheduled render and its *)
(* effects no handler of the model is changed by what happens.              *)
(***************************************************************************)
NoClosure == [hasMember |-> FALSE, cells |-> <<>>, display_name |-> "", userId |-> ""]
NoTimer == [armed |-> FALSE, cells |-> <<>>, closure |-> NoClosure]
NoEvent == [given |-> FALSE, pointerId |-> 0]

\* the render, and the effects at 367 and 371 that copy the state to the refs
renderAndSyncRefs(c) ==
  [c EXCEPT !.draftCells = c.pending.draftCells,
            !.drawing = c.pending.drawing,
            !.touchGesture = c.pending.touchGesture,
            !.isRealtimeSubscribed = c.pending.isRealtimeSubscribed,
            !.draftCellsRef = c.pending.draftCells,
            !.touchGestureRef = c.pending.touchGesture]

\* which dependencies changed from the render old to the render r
myMemberChanged(old, r, fetched) ==
  \/ hasMyMember(old) # hasMyMember(r)
  \/ fetched /\ hasMyMember(r)
  \/ old.userId # r.userId /\ hasMyMember(r)

activeChanged(old, r) == old.drawing.active # r.drawing.active

persistChanged(old, r, fetched) ==
  myMemberChanged(old, r, fetched) \/ old.userId # r.userId

inputChanged(old, r) == isCellInputEnabled(old) # isCellInputEnabled(r)

\* an effect without the cleanup: a timer that is set stays as it is
debounceEffectKeepingTimer(old, r, fetched) ==
  IF \/ old.draftCells # r.draftCells
     \/ activeChanged(old, r)
     \/ inputChanged(old, r)
     \/ persistChanged(old, r, fetched)
  THEN [r EXCEPT !.debounceTimer =
          IF @.armed THEN @
          ELSE IF r.drawing.active /\ isCellInputEnabled(r)
          THEN [armed |-> TRUE, cells |-> r.draftCells, closure |-> persistClosure(r)]
          ELSE NoTimer]
  ELSE r

\* the effect at 755: its cleanup clears the timer, its body sets a new one
debounceEffect(old, r, fetched) ==
  IF \/ old.draftCells # r.draftCells
     \/ activeChanged(old, r)
     \/ inputChanged(old, r)
     \/ persistChanged(old, r, fetched)
  THEN [r EXCEPT !.debounceTimer =
          IF r.drawing.active /\ isCellInputEnabled(r)
          THEN [armed |-> TRUE, cells |-> r.draftCells, closure |-> persistClosure(r)]
          ELSE NoTimer]
  ELSE r

\* a forced stop with the closures of the render before
forcedStopEffectOfOldRender(old, r, fetched) ==
  IF /\ r.isMobileViewport
     /\ r.mobileSection # "table" \/ ~r.mobileEditEnabled
     /\ r.drawing.active \/ r.touchGesture.active
  THEN [stopDrawing([r EXCEPT !.mobileSection = old.mobileSection,
                              !.mobileEditEnabled = old.mobileEditEnabled],
                    NoEvent)
          EXCEPT !.mobileSection = r.mobileSection,
                 !.mobileEditEnabled = r.mobileEditEnabled]
  ELSE r

\* the effect at 816
forcedStopEffect(old, r, fetched) ==
  IF /\ \/ activeChanged(old, r)
        \/ old.isMobileViewport # r.isMobileViewport
        \/ old.mobileEditEnabled # r.mobileEditEnabled
        \/ old.mobileSection # r.mobileSection
        \/ canEditSelected(old) # canEditSelected(r)
        \/ inputChanged(old, r)
        \/ persistChanged(old, r, fetched)
        \/ old.touchGesture.active # r.touchGesture.active
     /\ r.isMobileViewport
     /\ r.mobileSection # "table" \/ ~r.mobileEditEnabled
     /\ r.drawing.active \/ r.touchGesture.active
  THEN stopDrawing(r, NoEvent)
  ELSE r

\* a reconciliation that does not look at drawing.active
reconcileEffectWhileDrawing(old, r, fetched, c) ==
  IF /\ activeChanged(old, r) \/ myMemberChanged(old, r, fetched)
     /\ hasMyMember(r)
  THEN [c EXCEPT !.pending.draftCells =
          IF sameCells(@, r.members[myMemberIndex(r)].cells)
          THEN @ ELSE r.members[myMemberIndex(r)].cells]
  ELSE c

\* the effect at 687; the microtask it queues runs after the other effects,
\* on the state c they left
reconcileEffect(old, r, fetched, c) ==
  IF /\ activeChanged(old, r) \/ myMemberChanged(old, r, fetched)
     /\ ~r.drawing.active
     /\ hasMyMember(r)
  THEN [c EXCEPT !.pending.draftCells =
          IF sameCells(@, r.members[myMemberIndex(r)].cells)
          THEN @ ELSE r.members[myMemberIndex(r)].cells]
  ELSE c

\* fetchMembers (487-496) called from the closure of the render r: the
\* request reads the rows
fetchMembers(r, c) ==
  IF r.userId = "" THEN c
  ELSE [c EXCEPT !.fetches = Append(@, [ data |-> RowsData(c.rows),
                                         weekStartMs |-> r.currentWeekStartMs ])]

\* one period for every state of the subscription
pollPeriodFast(subscribed) == 700

\* the period of the interval (557-559)
pollPeriod(subscribed) == IF subscribed THEN 10000 ELSE 700

\* the effect at 521: the cleanup of the previous run, then the body
subscriptionEffect(old, r) ==
  IF /\ old.userId = r.userId
     /\ old.isRealtimeSubscribed = r.isRealtimeSubscribed
     \* fetchMembers is made anew when the week boundary changes (519)
     /\ old.currentWeekStartMs = r.currentWeekStartMs
  THEN r
  ELSE LET cleaned ==
             IF old.userId = "" THEN r
             ELSE [r EXCEPT !.pollEvery = 0,
                            !.pending.isRealtimeSubscribed = FALSE,
                            !.channel = "none"]
       IN  IF r.userId = "" THEN cleaned
           ELSE [fetchMembers(r, cleaned) EXCEPT
                   !.channel = "joining",
                   !.pollEvery = pollPeriod(r.isRealtimeSubscribed)]

\* the effect at 568: the cleanup sets ignore for the run before, whose
\* select or insert may be under way; the body sends the select of the
\* user's row
ensureMyRowEffect(old, r) ==
  IF /\ old.userId = r.userId
     /\ old.isViewOnlyMode = r.isViewOnlyMode
     /\ old.currentWeekStartMs = r.currentWeekStartMs
  THEN r
  ELSE LET ignored ==
             [ i \in 1 .. Len(r.ownRowChecks) |->
                 [r.ownRowChecks[i] EXCEPT !.ignore = TRUE] ]
           sent ==
             [ i \in 1 .. Len(r.writes) |->
                 IF r.writes[i].from = "ensure"
                 THEN [r.writes[i] EXCEPT !.ignore = TRUE] ELSE r.writes[i] ]
       IN  [r EXCEPT !.writes = sent,
                     !.ownRowChecks =
              IF r.userId = "" THEN ignored
              ELSE Append(ignored, [ userId |-> r.userId, ignore |-> FALSE,
                                     isViewOnlyMode |-> r.isViewOnlyMode,
                                     data |-> r.rows[r.userId],
                                     weekStartMs |-> r.currentWeekStartMs ])]

runEffects(old, r, fetched) ==
  reconcileEffect(old, r, fetched,
                  forcedStopEffect(old,
                    debounceEffect(old,
                      ensureMyRowEffect(old, subscriptionEffect(old, r)),
                      fetched),
                    fetched))

Flush(old, c, fetched) == runEffects(old, renderAndSyncRefs(c), fetched)

\* the callback of a request has run and left c: React renders if a setter
\* was given a value that differs from the state
settle(old, c) ==
  IF \/ c.statusMessage # old.statusMessage
     \/ c.isViewOnlyMode # old.isViewOnlyMode
     \/ c.needsNameSetup # old.needsNameSetup
     \/ c.selectedMemberId # old.selectedMemberId
     \/ c.pending.draftCells # old.pending.draftCells
  THEN Flush(old, c, FALSE)
  ELSE c

NeedsRender(c) ==
  \/ c.pending.draftCells # c.draftCells
  \/ c.pending.drawing # c.drawing
  \/ c.pending.touchGesture # c.touchGesture
  \/ c.pending.isRealtimeSubscribed # c.isRealtimeSubscribed

(***************************************************************************)
(* What the environment sends. The primary pointer (id 1) presses cells;    *)
(* pointer 2 is pressed elsewhere on the page and only moves and lifts.     *)
(* A touch goes down at StartPoint; later events of the pointer are at one  *)
(* of MovePoints, over one of PointerCells or over no cell.                 *)
(***************************************************************************)
PointerIds == {1, 2}
PointerTypes == {"mouse", "touch"}
PointerCells == {<<0, slot>> : slot \in 0 .. (MaxCells - 1)}
PointerKeys == {keyFor(cell[1], cell[2]) : cell \in PointerCells}
StartPoint == <<100, 100>>
Displacements ==
  { <<9, 9>>, <<0, 10>>, <<12, 0>>, <<0, 12>>, <<12, 10>>, <<-13, 10>> }
MovePoints == {<<StartPoint[1] + d[1], StartPoint[2] + d[2]>> : d \in Displacements}
Found ==
  {[hit |-> FALSE, day |-> 0, slot |-> 0]}
    \cup {[hit |-> TRUE, day |-> cell[1], slot |-> cell[2]] : cell \in PointerCells}
\* the pointer-moves: the primary pointer anywhere, pointer 2 somewhere else
MoveEvents ==
  {[pointerId |-> 1, point |-> point, found |-> found] :
     point \in MovePoints, found \in Found}
    \cup {[ pointerId |-> 2, point |-> StartPoint,
            found |-> [hit |-> FALSE, day |-> 0, slot |-> 0] ]}
PaintModes == {"smart", "mark", "erase"}
MobileSections == {"users", "table", "result"}

tablePanelShown(c) == ~c.isMobileViewport \/ c.mobileSection = "table"
usersPanelShown(c) == ~c.isMobileViewport \/ c.mobileSection = "users"

(***************************************************************************)
(* Actions: the handlers. A discrete event (pointerdown, pointerup,         *)
(* pointercancel, click) renders synchronously; updates queued by           *)
(* pointermove and pointerenter wait for the scheduled render (Render).     *)
(***************************************************************************)
\* onPointerDown of a cell button (1462-1488)
\* the press is noted in the history
pressed(c, nextValue, pointerType) ==
  [c EXCEPT !.hist = [NoHist EXCEPT !.down = TRUE,
                                    !.gestures = c.hist.gestures + 1,
                                    !.value = nextValue,
                                    !.pointerType = pointerType,
                                    !.expected = c.hist.expected,
                                    !.hours = c.hist.hours,
                                    !.start = Range(c.pending.draftCells)]]

\* a press of the mouse that starts the drawing and leaves the cell alone
onPointerDownWithoutPaint(c, day, slot, pointerType, nextValue) ==
  IF pointerType = "touch"
  THEN setTouchGesture(c,
         [ active |-> TRUE, pointerId |-> 1,
           startX |-> StartPoint[1], startY |-> StartPoint[2],
           startDay |-> day, startSlot |-> slot,
           value |-> nextValue, mode |-> "pending" ])
  ELSE setDrawing(c, [active |-> TRUE, value |-> nextValue])

\* 1467-1487, the press being at StartPoint with pointer 1
onPointerDown(c, day, slot, pointerType, nextValue) ==
  IF pointerType = "touch"
  THEN setTouchGesture(c,
         [ active |-> TRUE, pointerId |-> 1,
           startX |-> StartPoint[1], startY |-> StartPoint[2],
           startDay |-> day, startSlot |-> slot,
           value |-> nextValue, mode |-> "pending" ])
  ELSE paintCell(setDrawing(c, [active |-> TRUE, value |-> nextValue]),
                 day, slot, nextValue, "down")

\* a value that toggles the cell whatever the paint mode
nextValueToggling(c, day, slot) == ~ObjHas(displayedCells(c), keyFor(day, slot))

\* 1467-1471
nextValueFor(c, day, slot) ==
  IF c.paintMode = "smart" THEN ~ObjHas(displayedCells(c), keyFor(day, slot))
  ELSE c.paintMode = "mark"

PointerDown(day, slot, pointerType) ==
  /\ tablePanelShown(Client)
  /\ ~hist.down
  /\ hist.gestures < MaxGestures
  /\ IF ~isCellInputEnabled(Client) THEN UNCHANGED vars
     ELSE Step(Flush(Client,
                     onPointerDown(pressed(Client, nextValueFor(Client, day, slot),
                                           pointerType),
                                   day, slot, pointerType,
                                   nextValueFor(Client, day, slot)),
                     FALSE))

\* onPointerEnter of a cell button (1489-1494)
PointerEnter(day, slot) ==
  /\ tablePanelShown(Client)
  /\ drawing.active
  /\ Step(paintCell(Client, day, slot, drawing.value, "enter"))

\* the pointermove listener; it is registered while the render has
\* drawing.active or touchGesture.active (861-941)
PointerMove(pointerId, point, found) ==
  /\ drawing.active \/ touchGesture.active
  /\ Step(handlePointerMove(Client,
            [ pointerId |-> pointerId, clientX |-> point[1],
              clientY |-> point[2], found |-> found ]))

\* the pointerup and pointercancel listeners of window (835-842)
\* the lift of the primary pointer is noted in the history, and the lift of
\* another pointer while the touch gesture of the primary pointer is active
lifted(c, pointerId) ==
  IF pointerId = 1 THEN [c EXCEPT !.hist.down = FALSE, !.hist.foreign = FALSE]
  ELSE [c EXCEPT !.hist.foreign = @ \/ c.touchGestureRef.active]

StopEvent(pointerId) ==
  Step(Flush(Client,
             lifted(stopDrawing(Client, [given |-> TRUE, pointerId |-> pointerId]),
                    pointerId),
             FALSE))

PointerUp(pointerId) ==
  /\ pointerId \in PointerIds
  /\ StopEvent(pointerId)

\* a cancel that ends the gesture and drops the commit
PointerCancelWithoutCommit(pointerId) ==
  /\ pointerId \in PointerIds
  /\ Step(Flush(Client,
                lifted(resetGestureAndDrawing(Client, TRUE), pointerId),
                FALSE))

PointerCancel(pointerId) ==
  /\ pointerId \in PointerIds
  /\ StopEvent(pointerId)

\* the render React scheduled for the queued updates
Render ==
  /\ NeedsRender(Client)
  /\ Step(Flush(Client, Client, FALSE))

\* the timer of the effect at 755 fires
DebounceFire ==
  /\ debounceTimer.armed
  /\ Step(persistMyCells([Client EXCEPT !.debounceTimer = NoTimer],
                         debounceTimer.closure, debounceTimer.cells,
                         "debounce", NoTap))

\* the timer stopDrawing set for a tap fires (805-807)
TapTimerFire ==
  /\ tapTimers # <<>>
  /\ Step(persistMyCells([Client EXCEPT !.tapTimers = Tail(@)],
                         Head(tapTimers).closure, draftCellsRef, "tap",
                         Head(tapTimers).tap))

\* fetchMembers is called (poll, change feed): the request reads the rows
FetchStart ==
  /\ userId # ""
  /\ Len(fetches) < MaxInFlight
  /\ fetches' = Append(fetches, [ data |-> RowsData(rows),
                                  weekStartMs |-> currentWeekStartMs ])
  /\ UNCHANGED << userId, members, selectedMemberId, isMobileViewport,
                  mobileSection, mobileEditEnabled, paintMode, minimumDuration,
                  currentWeekStartMs, draftCells, drawing, touchGesture, pending,
                  draftCellsRef, touchGestureRef, debounceTimer, tapTimers, rows,
                  writes, now, hist, isRealtimeSubscribed, channel, pollEvery,
                  ownRowChecks, needsNameSetup, isViewOnlyMode, statusMessage >>

\* a response that is dropped: the member list stays as it is
FetchDoneDropped(i) ==
  /\ i \in 1 .. Len(fetches)
  /\ Step([Client EXCEPT !.fetches = RemoveAt(@, i)])

\* the response of a fetch arrives: fetchMembers from 498 on
FetchDone(i) ==
  /\ i \in 1 .. Len(fetches)
  /\ Step(Flush(Client,
                [Client EXCEPT !.fetches = RemoveAt(@, i),
                               !.members = refreshMembers(fetches[i].data,
                                                          fetches[i].weekStartMs)],
                TRUE))

\* what the sender of a request does when it comes back (719-724, 615-617,
\* 646-662, 1072-1081, 1116-1130, 1155-1168)
writeReturned(c, request, error) ==
  LET refetched ==
        [c EXCEPT !.fetches = Append(@, [ data |-> RowsData(c.rows),
                                          weekStartMs |-> request.weekStartMs ])]
  IN
  IF request.from = "persist"
  THEN [c EXCEPT !.statusMessage =
          IF error THEN STATUS_SAVE_FAILED ELSE STATUS_CONNECTED]
  ELSE IF request.from = "ensure" /\ request.kind = "reset"
  THEN IF error /\ ~request.ignore
       THEN [c EXCEPT !.statusMessage = STATUS_WEEKLY_RESET_FAILED] ELSE c
  ELSE IF request.from = "ensure"
  THEN IF request.ignore THEN c
       ELSE IF error THEN [c EXCEPT !.statusMessage = STATUS_INSERT_FAILED]
       ELSE [refetched EXCEPT !.isViewOnlyMode = FALSE,
                              !.needsNameSetup = FALSE,
                              !.statusMessage = STATUS_CONNECTED]
  ELSE IF request.from = "save"
  THEN IF error THEN [c EXCEPT !.statusMessage = STATUS_NAME_FAILED]
       ELSE [refetched EXCEPT !.isViewOnlyMode = FALSE,
                              !.needsNameSetup = FALSE,
                              !.statusMessage = STATUS_CONNECTED]
  ELSE IF request.from = "deleteAll"
  THEN IF error THEN [c EXCEPT !.statusMessage = STATUS_DELETE_FAILED]
       ELSE [setDraftCells(refetched, <<>>) EXCEPT
               !.selectedMemberId = "",
               !.statusMessage = STATUS_DELETED]
  ELSE IF error THEN [c EXCEPT !.statusMessage = STATUS_RESET_FAILED]
       ELSE [refetched EXCEPT !.statusMessage = STATUS_RESET_DONE]

\* the row store applies a request and answers it
ApplyWrite(i) ==
  /\ i \in 1 .. Len(writes)
  /\ Step(settle(Client,
                 writeReturned([Client EXCEPT !.writes = RemoveAt(@, i),
                                              !.rows = applyUpdate(@, writes[i])],
                               writes[i], writeError(rows, writes[i]))))

\* a request fails on its way (network, query): the rows stay as they are
FailWrite(i) ==
  /\ i \in 1 .. Len(writes)
  /\ Step(settle(Client,
                 writeReturned([Client EXCEPT !.writes = RemoveAt(@, i)],
                               writes[i], TRUE)))

\* a fetchMembers that empties the list when its select fails
FetchFailClearing(i) ==
  /\ i \in 1 .. Len(fetches)
  /\ Step(Flush(Client,
                [Client EXCEPT !.fetches = RemoveAt(@, i),
                               !.members = <<>>,
                               !.statusMessage = STATUS_FETCH_FAILED],
                TRUE))

\* the select of fetchMembers comes back with an error (498-501)
FetchFail(i) ==
  /\ i \in 1 .. Len(fetches)
  /\ Step(settle(Client,
                 [Client EXCEPT !.fetches = RemoveAt(@, i),
                                !.statusMessage = STATUS_FETCH_FAILED]))

\* the callback of onAuthStateChange (473-479): the session is that of
\* another user, or there is none
onAuthStateChange(nextUserId) ==
  /\ nextUserId \in Range(UserIds) \cup {""}
  /\ nextUserId # userId
  /\ Step(Flush(Client,
                [Client EXCEPT !.userId = nextUserId,
                               !.statusMessage =
                                  IF nextUserId # "" THEN STATUS_CONNECTED ELSE @],
                FALSE))

\* the callback of subscribe (540-551); the update it queues is rendered
\* later
Subscribed ==
  /\ channel = "joining"
  /\ Step(fetchMembers(Client,
                       [Client EXCEPT !.channel = "joined",
                                      !.pending.isRealtimeSubscribed = TRUE,
                                      !.statusMessage = STATUS_CONNECTED]))

ChannelError ==
  /\ channel \in {"joining", "joined"}
  /\ Step([Client EXCEPT !.channel = "errored",
                         !.pending.isRealtimeSubscribed = FALSE,
                         !.statusMessage = STATUS_REALTIME_FAILED])

\* the select of ensureMyRow returns (583-664). The name field is filled, so
\* 596-598 change nothing; for a user without a row, stored is the name
\* localStorage holds, "" if none (623-634)
StoredNames == {"", "Ann"}

\* a run that does not look at the view-only mode
viewOnlyOverlooked(check) == FALSE

\* the test of 624, on the isViewOnlyMode of the render that started the run
viewOnlyRun(check) == check.isViewOnlyMode

\* a run that resets the row whatever its age and mode
needsResetAlways(existingMember, weekStartMs) == TRUE

\* the test of 600-603
needsReset(existingMember, weekStartMs) ==
  \/ isStaleWeek(existingMember.updated_at, weekStartMs)
  \/ existingMember.is_legacy_unavailable_mode

\* the state the continuation of ensureMyRow leaves (from 585 on)
ownRowAnswered(i, stored) ==
     LET check == ownRowChecks[i]
         c == [Client EXCEPT !.ownRowChecks = RemoveAt(@, i)]
         existingMember == toMember(RowJson(check.data))
         reset ==
           [ kind |-> "reset", user_id |-> check.userId,
             last_editor |-> existingMember.display_name,
             updated_at |-> TsAt(now), from |-> "ensure", ignore |-> FALSE,
             auth |-> userId ]
         insert ==
           [ kind |-> "insert", user_id |-> check.userId,
             display_name |-> stored, last_editor |-> stored,
             updated_at |-> TsAt(now), from |-> "ensure", ignore |-> FALSE,
             weekStartMs |-> check.weekStartMs, auth |-> userId ]
     IN  settle(Client,
           IF check.ignore THEN c
           ELSE IF check.data.present
           THEN [c EXCEPT !.isViewOnlyMode = FALSE,
                          !.needsNameSetup = FALSE,
                          !.writes =
                             IF needsReset(existingMember, check.weekStartMs)
                             THEN Append(@, reset) ELSE @]
           ELSE IF viewOnlyRun(check)
           THEN [c EXCEPT !.needsNameSetup = FALSE,
                          !.statusMessage = STATUS_VIEW_ONLY]
           ELSE IF stored = ""
           THEN [c EXCEPT !.needsNameSetup = TRUE,
                          !.statusMessage = STATUS_FIRST_VISIT]
           ELSE [c EXCEPT !.writes = Append(@, insert)])

OwnRowChecked(i, stored) ==
  /\ i \in 1 .. Len(ownRowChecks)
  /\ stored \in StoredNames
  /\ Step(ownRowAnswered(i, stored))

\* the select of ensureMyRow comes back with an error (587-590)
OwnRowCheckFailed(i) ==
  /\ i \in 1 .. Len(ownRowChecks)
  /\ Step(settle(Client,
                 [Client EXCEPT !.ownRowChecks = RemoveAt(@, i),
                                !.statusMessage =
                                   IF ownRowChecks[i].ignore THEN @
                                   ELSE STATUS_OWN_ROW_FAILED]))

\* the second button of the dialog that asks for a name (1615-1625)
enterViewOnly ==
  /\ needsNameSetup
  /\ Step(Flush(Client,
                [Client EXCEPT !.isViewOnlyMode = TRUE,
                               !.needsNameSetup = FALSE,
                               !.statusMessage = STATUS_VIEW_ONLY],
                FALSE))

\* the button and the Enter key of the name field (1043-1082), the field
\* holding name
DisplayNames == {"Ann", "Cho"}

saveDisplayName(name) ==
  /\ name \in DisplayNames
  /\ usersPanelShown(Client) \/ needsNameSetup
  /\ userId # ""
  /\ Step([Client EXCEPT !.writes =
            Append(@, [ kind |-> IF hasMyMember(Client) THEN "name" ELSE "insert",
                        user_id |-> userId, display_name |-> name,
                        last_editor |-> name, updated_at |-> TsAt(now),
                        from |-> "save", ignore |-> FALSE,
                        weekStartMs |-> currentWeekStartMs, auth |-> userId ])])

\* the name the two procedures are given (1108-1109, 1148-1149); the name
\* field is filled when the user has no row
editorName(c) ==
  IF hasMyMember(c) /\ c.members[myMemberIndex(c)].display_name # ""
  THEN c.members[myMemberIndex(c)].display_name
  ELSE "Ann"

\* the buttons that delete all users and reset all schedules (1094-1169,
\* 1279-1299), disabled while the user has no row; confirmed is the answer
\* to window.confirm
adminRequest(c, kind, from) ==
  [ kind |-> kind, user_id |-> c.userId, last_editor |-> editorName(c),
    updated_at |-> TsAt(c.now), from |-> from, ignore |-> FALSE,
    weekStartMs |-> c.currentWeekStartMs, auth |-> c.userId ]

\* the answer "cancel" is noted in the history
declined(c, from) == [c EXCEPT !.hist.declined = from]

\* a handler that goes on whatever the answer to window.confirm
deleteAllUsersUnasked(confirmed) ==
  /\ confirmed \in BOOLEAN
  /\ usersPanelShown(Client)
  /\ hasMyMember(Client)
  /\ IF userId = "" THEN UNCHANGED vars
     ELSE Step(Flush(Client,
                     [Client EXCEPT !.statusMessage = STATUS_DELETING,
                                    !.writes = Append(@, adminRequest(Client,
                                                 "delete_all", "deleteAll"))],
                     FALSE))

deleteAllUsers(confirmed) ==
  /\ confirmed \in BOOLEAN
  /\ usersPanelShown(Client)
  /\ hasMyMember(Client)
  /\ IF userId = "" THEN UNCHANGED vars
     ELSE IF ~confirmed THEN Step(declined(Client, "deleteAll"))
     ELSE Step(Flush(Client,
                     [Client EXCEPT !.statusMessage = STATUS_DELETING,
                                    !.writes = Append(@, adminRequest(Client,
                                                 "delete_all", "deleteAll"))],
                     FALSE))

resetAllSchedules(confirmed) ==
  /\ confirmed \in BOOLEAN
  /\ usersPanelShown(Client)
  /\ hasMyMember(Client)
  /\ IF userId = "" THEN UNCHANGED vars
     ELSE IF ~confirmed THEN Step(declined(Client, "resetAll"))
     ELSE Step(Flush(Client,
                     [Client EXCEPT !.statusMessage = STATUS_RESETTING,
                                    !.writes = Append(@, adminRequest(Client,
                                                 "reset_all", "resetAll"))],
                     FALSE))

\* the button that empties the user's timetable (1084-1092)
clearMyCells ==
  /\ usersPanelShown(Client)
  /\ hasMyMember(Client)
  /\ Step(Flush(Client,
                persistMyCells(setDraftCells(Client, <<>>), persistClosure(Client),
                               <<>>, "clear", NoTap),
                FALSE))

\* Another session sends a request to the row store: the session of user u
\* (which may be the local user on another device, under the same name)
\* creates its row, saves its name, resets its row, or calls one of the two
\* procedures
RemoteKinds == {"insert", "name", "reset", "delete_all", "reset_all"}

RemoteWrite(u, kind) ==
  /\ u \in Range(UserIds)
  /\ kind \in RemoteKinds
  /\ rows' = applyUpdate(rows, [ kind |-> kind, user_id |-> u,
                                 display_name |-> "Ann", last_editor |-> "Ann",
                                 updated_at |-> TsAt(now), auth |-> u ])
  /\ rows' # rows
  /\ UNCHANGED << userId, members, selectedMemberId, isMobileViewport,
                  mobileSection, mobileEditEnabled, paintMode, minimumDuration,
                  currentWeekStartMs, draftCells, drawing, touchGesture, pending,
                  draftCellsRef, touchGestureRef, debounceTimer, tapTimers,
                  writes, fetches, now, hist, isRealtimeSubscribed, channel,
                  pollEvery, ownRowChecks, needsNameSetup, isViewOnlyMode,
                  statusMessage >>

\* the buttons of the page
SetPaintMode(mode) ==
  /\ ~isMobileViewport \/ (mobileSection = "table" /\ mobileEditEnabled)
  /\ mode # paintMode
  /\ Step(Flush(Client, [Client EXCEPT !.paintMode = mode], FALSE))

SelectMember(i) ==
  /\ usersPanelShown(Client)
  /\ members[i].id # selectedMemberId
  /\ Step(Flush(Client, [Client EXCEPT !.selectedMemberId = members[i].id], FALSE))

\* onChange of the duration select (1535); the memos are recomputed in the
\* render
setMinimumDuration(option) ==
  /\ ~isMobileViewport \/ mobileSection = "result"
  /\ option # minimumDuration
  /\ Step(Flush(Client, [Client EXCEPT !.minimumDuration = option], FALSE))

toggleMobileEdit ==
  /\ isMobileViewport /\ mobileSection = "table"
  /\ canEditSelected(Client)
  /\ Step(Flush(Client, [Client EXCEPT !.mobileEditEnabled = ~@], FALSE))

handleMobileSectionChange(next) ==
  /\ isMobileViewport
  /\ next # mobileSection
  /\ Step(Flush(Client,
                [Client EXCEPT !.mobileSection = next,
                               !.mobileEditEnabled =
                                  IF next # "table" THEN FALSE ELSE @],
                FALSE))

(***************************************************************************)
(* The session once it is set up: the user is signed in, both users have a  *)
(* row of this week, the member list has been fetched and the draft buffer  *)
(* reconciled with it.                                                      *)
(***************************************************************************)
\* ten days after the epoch: Sunday 1970-01-11, 09:00 KST
ClockStart == 24 * 10

InitialRow(uid, id, name, keys, at) ==
  [ present |-> TRUE, id |-> id, user_id |-> uid, display_name |-> name,
    mode |-> "available", cells |-> CellsPayload(keys), last_editor |-> name,
    updated_at |-> TsAt(at), more |-> <<>> ]

InitialRows ==
  [ u \in Range(UserIds) |->
      IF u = "u1" THEN InitialRow("u1", "m1", "Ann", {}, ClockStart)
      ELSE InitialRow("u2", "m2", "Ben", {keyFor(0, 0)}, ClockStart - 1) ]

\* The session of user u1 at the instant clock, the row store holding rs.
\* fetched = FALSE: the user has just signed in, the state is that of the
\* useState initialisers (319-365). fetched = TRUE: the member list has been
\* fetched and the draft buffer reconciled with the user's row.
Session(rs, clock, mobile, fetched) ==
  LET fetchedMembers == refreshMembers(RowsData(rs), getKstWeekStartMs(clock))
      mine == {i \in 1 .. Len(fetchedMembers) : fetchedMembers[i].user_id = "u1"}
      cells == IF fetched /\ mine # {}
               THEN fetchedMembers[CHOOSE i \in mine : TRUE].cells
               ELSE <<>>
  IN  [ userId |-> "u1",
        members |-> IF fetched THEN fetchedMembers ELSE <<>>,
        selectedMemberId |-> "",
        isMobileViewport |-> mobile,
        mobileSection |-> "table",
        mobileEditEnabled |-> FALSE,
        paintMode |-> "smart",
        minimumDuration |-> 60,
        currentWeekStartMs |-> getKstWeekStartMs(clock),
        draftCells |-> cells,
        drawing |-> [active |-> FALSE, value |-> TRUE],
        touchGesture |-> NoGesture,
        isRealtimeSubscribed |-> FALSE,
        pending |-> [ draftCells |-> cells,
                      drawing |-> [active |-> FALSE, value |-> TRUE],
                      touchGesture |-> NoGesture,
                      isRealtimeSubscribed |-> FALSE ],
        draftCellsRef |-> cells,
        touchGestureRef |-> NoGesture,
        debounceTimer |-> NoTimer,
        tapTimers |-> <<>>,
        rows |-> rs,
        writes |-> <<>>,
        fetches |-> <<>>,
        ownRowChecks |-> <<>>,
        channel |-> "joining",
        pollEvery |-> pollPeriod(FALSE),
        needsNameSetup |-> FALSE,
        isViewOnlyMode |-> FALSE,
        statusMessage |-> STATUS_CONNECTED,
        now |-> clock,
        hist |-> NoHist ]

\* the state is c
Begin(c) ==
  /\ userId = c.userId
  /\ members = c.members
  /\ selectedMemberId = c.selectedMemberId
  /\ isMobileViewport = c.isMobileViewport
  /\ mobileSection = c.mobileSection
  /\ mobileEditEnabled = c.mobileEditEnabled
  /\ paintMode = c.paintMode
  /\ minimumDuration = c.minimumDuration
  /\ currentWeekStartMs = c.currentWeekStartMs
  /\ draftCells = c.draftCells
  /\ drawing = c.drawing
  /\ touchGesture = c.touchGesture
  /\ pending = c.pending
  /\ draftCellsRef = c.draftCellsRef
  /\ touchGestureRef = c.touchGestureRef
  /\ debounceTimer = c.debounceTimer
  /\ tapTimers = c.tapTimers
  /\ rows = c.rows
  /\ writes = c.writes
  /\ fetches = c.fetches
  /\ now = c.now
  /\ hist = c.hist
  /\ isRealtimeSubscribed = c.isRealtimeSubscribed
  /\ channel = c.channel
  /\ pollEvery = c.pollEvery
  /\ ownRowChecks = c.ownRowChecks
  /\ needsNameSetup = c.needsNameSetup
  /\ isViewOnlyMode = c.isViewOnlyMode
  /\ statusMessage = c.statusMessage

Init == \E mobile \in BOOLEAN : Begin(Session(InitialRows, ClockStart, mobile, TRUE))

Next ==
  \/ \E cell \in PointerCells, pointerType \in PointerTypes :
       PointerDown(cell[1], cell[2], pointerType)
  \/ \E cell \in PointerCells : PointerEnter(cell[1], cell[2])
  \/ \E event \in MoveEvents :
       PointerMove(event.pointerId, event.point, event.found)
  \/ \E pointerId \in PointerIds : PointerUp(pointerId)
  \/ \E pointerId \in PointerIds : PointerCancel(pointerId)
  \/ Render
  \/ DebounceFire
  \/ TapTimerFire
  \/ FetchStart
  \/ \E i \in 1 .. Len(fetches) : FetchDone(i)
  \/ \E i \in 1 .. Len(writes) : ApplyWrite(i)
  \/ \E mode \in PaintModes : SetPaintMode(mode)
  \/ \E i \in 1 .. Len(members) : SelectMember(i)
  \/ toggleMobileEdit
  \/ \E next \in MobileSections : handleMobileSectionChange(next)
  \/ \E option \in DURATION_OPTIONS : setMinimumDuration(option)
  \/ \E nextUserId \in Range(UserIds) \cup {""} : onAuthStateChange(nextUserId)
  \/ Subscribed
  \/ ChannelError
  \/ \E i \in 1 .. Len(ownRowChecks), stored \in StoredNames :
       OwnRowChecked(i, stored)
  \/ \E name \in DisplayNames : saveDisplayName(name)
  \/ clearMyCells
  \/ \E i \in 1 .. Len(writes) : FailWrite(i)
  \/ \E i \in 1 .. Len(fetches) : FetchFail(i)
  \/ \E i \in 1 .. Len(ownRowChecks) : OwnRowCheckFailed(i)
  \/ enterViewOnly
  \/ \E confirmed \in BOOLEAN : deleteAllUsers(confirmed)
  \/ \E confirmed \in BOOLEAN : resetAllSchedules(confirmed)
  \/ \E u \in Range(UserIds), kind \in RemoteKinds : RemoteWrite(u, kind)

Spec == Init /\ [][Next]_vars

(***************************************************************************)
(* Touch gestures on the desktop layout: presses with a finger, the moves,  *)
(* lifts and cancels that follow, the renders and timers they cause and the *)
(* row store applying the writes.                                           *)
(***************************************************************************)
GestureInit == Begin(Session(InitialRows, ClockStart, FALSE, TRUE))

TouchNext ==
  \/ \E cell \in PointerCells : PointerDown(cell[1], cell[2], "touch")
  \/ \E event \in MoveEvents :
       PointerMove(event.pointerId, event.point, event.found)
  \/ \E pointerId \in PointerIds : PointerUp(pointerId)
  \/ \E pointerId \in PointerIds : PointerCancel(pointerId)
  \/ Render
  \/ DebounceFire
  \/ TapTimerFire
  \/ \E i \in 1 .. Len(writes) : ApplyWrite(i)

TouchSpec == GestureInit /\ [][TouchNext]_vars

(***************************************************************************)
(* The same session with the mouse as well and with the refreshes of the    *)
(* member list.                                                             *)
(***************************************************************************)
SyncNext ==
  \/ \E cell \in PointerCells, pointerType \in PointerTypes :
       PointerDown(cell[1], cell[2], pointerType)
  \/ \E cell \in PointerCells : PointerEnter(cell[1], cell[2])
  \/ \E event \in MoveEvents :
       PointerMove(event.pointerId, event.point, event.found)
  \/ \E pointerId \in PointerIds : PointerUp(pointerId)
  \/ \E pointerId \in PointerIds : PointerCancel(pointerId)
  \/ Render
  \/ DebounceFire
  \/ TapTimerFire
  \/ \E i \in 1 .. Len(writes) : ApplyWrite(i)
  \/ FetchStart
  \/ \E i \in 1 .. Len(fetches) : FetchDone(i)

SyncSpec == GestureInit /\ [][SyncNext]_vars

(***************************************************************************)
(* The same session when requests can fail: a select of fetchMembers or a   *)
(* write comes back with an error.                                          *)
(***************************************************************************)
FaultNext ==
  \/ SyncNext
  \/ \E i \in 1 .. Len(writes) : FailWrite(i)
  \/ \E i \in 1 .. Len(fetches) : FetchFail(i)

FaultSpec == GestureInit /\ [][FaultNext]_vars

(***************************************************************************)
(* The commit of a drag. The session is in the middle of a mouse drag on    *)
(* the user's own grid: the row holds the cells of committed, the buffer is *)
(* any list of the cells the pointer reaches (former taps and drags, whose  *)
(* writes came back in a refresh, leave the keys in any order), the render  *)
(* is up to date and its debounce timer is armed.                           *)
(***************************************************************************)
RECURSIVE Buffers(_)
Buffers(keys) ==
  {<<>>} \cup UNION { {<<key>> \o rest : rest \in Buffers(keys \ {key})} : key \in keys }

CommitRows(committed) ==
  [InitialRows EXCEPT !["u1"].cells = CellsPayload(committed)]

MidDrag(committed, buffer, value) ==
  LET base == Session(CommitRows(committed), ClockStart, FALSE, TRUE)
      held == [active |-> TRUE, value |-> value]
      mid == [base EXCEPT !.draftCells = buffer,
                          !.drawing = held,
                          !.pending = [ draftCells |-> buffer, drawing |-> held,
                                        touchGesture |-> NoGesture,
                                        isRealtimeSubscribed |-> FALSE ],
                          !.draftCellsRef = buffer,
                          !.hist = [NoHist EXCEPT !.down = TRUE, !.gestures = 1,
                                                  !.value = value,
                                                  !.painted = {value}]]
  IN  [mid EXCEPT !.debounceTimer =
         [armed |-> TRUE, cells |-> buffer, closure |-> persistClosure(mid)]]

CommitInit ==
  \E committed \in SUBSET PointerKeys, buffer \in Buffers(PointerKeys),
     value \in BOOLEAN :
    \* the press that started the drag painted its cell with value
    /\ value => buffer # <<>>
    /\ Begin(MidDrag(committed, buffer, value))

CommitNext ==
  \/ \E cell \in PointerCells : PointerEnter(cell[1], cell[2])
  \/ \E pointerId \in PointerIds : PointerUp(pointerId)
  \/ \E pointerId \in PointerIds : PointerCancel(pointerId)
  \/ Render
  \/ DebounceFire
  \/ \E i \in 1 .. Len(writes) : ApplyWrite(i)

CommitSpec == CommitInit /\ [][CommitNext]_vars

(***************************************************************************)
(* The refresh of the member list. The user has just signed in and has a    *)
(* row of this week; the row of the other user is of any age and carries    *)
(* any payload.                                                             *)
(***************************************************************************)
WeekStart == getKstWeekStartMs(ClockStart)

Stamps == {TsNull, TsBad, TsAt(WeekStart - 1), TsAt(WeekStart), TsAt(WeekStart + 1)}

Payloads ==
  { CellsPayload({}), CellsPayload({keyFor(0, 0), keyFor(0, 1)}), JsonNull,
    JsonObject(<< [key |-> keyFor(0, 0), val |-> FALSE],
                  [key |-> keyFor(0, 1), val |-> TRUE] >>) }

FetchRows ==
  { [InitialRows EXCEPT !["u1"].updated_at = mine,
                        !["u1"].cells = CellsPayload({keyFor(0, 1)}),
                        !["u2"].updated_at = theirs,
                        !["u2"].cells = payload,
                        !["u2"].mode = mode] :
      mine \in {TsAt(WeekStart), TsAt(ClockStart)}, theirs \in Stamps,
      payload \in Payloads, mode \in {"available", "unavailable"} }

FetchInit == \E rs \in FetchRows : Begin(Session(rs, ClockStart, FALSE, FALSE))

FetchNext ==
  \/ FetchStart
  \/ \E i \in 1 .. Len(fetches) : FetchDone(i)

FetchSpec == FetchInit /\ [][FetchNext]_vars

(***************************************************************************)
(* The aggregation. The rows hold patterns of cells that make runs of       *)
(* several lengths, inside a day and on both sides of midnight; each of the *)
(* two users has a row or none. The user presses and drags over the grid    *)
(* and chooses the minimum duration.                                        *)
(***************************************************************************)
CellKeys(cells) == {keyFor(cell[1], cell[2]) : cell \in cells}

Patterns ==
  { {},
    CellKeys({0} \X {0, 1}),
    CellKeys({0} \X {2, 3, 4, 7, 8, 10}),
    CellKeys({<<0, SLOT_COUNT - 1>>, <<1, 0>>}),
    CellKeys(({2} \X {SLOT_COUNT - 2, SLOT_COUNT - 1}) \cup ({3} \X {0, 1, 2})),
    CellKeys(({5} \X {4, 5, 6, 7}) \cup ({6} \X Slots)) }

AggregateRows ==
  { [ u \in Range(UserIds) |->
        IF u = "u1"
        THEN [InitialRows["u1"] EXCEPT !.present = mine.present,
                                       !.cells = CellsPayload(mine.keys)]
        ELSE [InitialRows["u2"] EXCEPT !.present = theirs.present,
                                       !.cells = CellsPayload(theirs.keys)] ] :
      mine \in {[present |-> TRUE, keys |-> keys] : keys \in Patterns}
                 \cup {[present |-> FALSE, keys |-> {}]},
      theirs \in {[present |-> TRUE, keys |-> keys] : keys \in Patterns}
                   \cup {[present |-> FALSE, keys |-> {}]} }

AggregateInit == \E rs \in AggregateRows : Begin(Session(rs, ClockStart, FALSE, TRUE))

AggregateNext ==
  \/ \E cell \in PointerCells : PointerDown(cell[1], cell[2], "mouse")
  \/ \E cell \in PointerCells : PointerEnter(cell[1], cell[2])
  \/ Render
  \/ \E option \in DURATION_OPTIONS : setMinimumDuration(option)

AggregateSpec == AggregateInit /\ [][AggregateNext]_vars

(***************************************************************************)
(* Gating of the input. On either layout the user selects a member, turns   *)
(* the edit mode on and off, changes section, and presses, drags and lifts  *)
(* with the mouse or a finger.                                              *)
(***************************************************************************)
GateInit == \E mobile \in BOOLEAN : Begin(Session(InitialRows, ClockStart, mobile, TRUE))

GateNext ==
  \/ \E cell \in PointerCells, pointerType \in PointerTypes :
       PointerDown(cell[1], cell[2], pointerType)
  \/ \E cell \in PointerCells : PointerEnter(cell[1], cell[2])
  \/ \E event \in MoveEvents :
       PointerMove(event.pointerId, event.point, event.found)
  \/ \E pointerId \in PointerIds : PointerUp(pointerId)
  \/ Render
  \/ \E i \in 1 .. Len(members) : SelectMember(i)
  \/ toggleMobileEdit
  \/ \E next \in MobileSections : handleMobileSectionChange(next)

GateSpec == GateInit /\ [][GateNext]_vars

(***************************************************************************)
(* A change of identity. The session of u1 on the desktop layout, the row   *)
(* of u2 being in the legacy mode: taps on the own grid, the session        *)
(* passing to the other user or ending, the check of the own row that       *)
(* follows with its reset of the legacy row, and the row store.             *)
(***************************************************************************)
IdentityRows == [InitialRows EXCEPT !["u2"].mode = "unavailable"]

IdentityInit == Begin(Session(IdentityRows, ClockStart, FALSE, TRUE))

IdentityNext ==
  \/ \E cell \in PointerCells : PointerDown(cell[1], cell[2], "touch")
  \/ PointerUp(1)
  \/ Render
  \/ TapTimerFire
  \/ \E i \in 1 .. Len(writes) : ApplyWrite(i)
  \/ \E i \in 1 .. Len(fetches) : FetchDone(i)
  \/ \E nextUserId \in Range(UserIds) \cup {""} : onAuthStateChange(nextUserId)
  \/ \E i \in 1 .. Len(ownRowChecks), stored \in StoredNames :
       OwnRowChecked(i, stored)

IdentitySpec == IdentityInit /\ [][IdentityNext]_vars

(***************************************************************************)
(* The subscription. The session of u1, the row of u2 being in the legacy   *)
(* mode: the channel reports SUBSCRIBED or CHANNEL_ERROR, the session       *)
(* passes to the other user or ends, the own row is checked and reset, the  *)
(* polls and the fetches the effect starts come back.                       *)
(***************************************************************************)
PollNext ==
  \/ Subscribed
  \/ ChannelError
  \/ Render
  \/ \E nextUserId \in Range(UserIds) \cup {""} : onAuthStateChange(nextUserId)
  \/ \E i \in 1 .. Len(ownRowChecks), stored \in StoredNames :
       OwnRowChecked(i, stored)
  \/ \E i \in 1 .. Len(writes) : ApplyWrite(i)
  \/ FetchStart
  \/ \E i \in 1 .. Len(fetches) : FetchDone(i)

PollSpec == IdentityInit /\ [][PollNext]_vars

(***************************************************************************)
(* The mobile layout: the edit mode is switched on and off and the section  *)
(* changed while a finger or the mouse draws on the own grid; the renders,  *)
(* the timers and the row store.                                            *)
(***************************************************************************)
MobileInit == Begin(Session(InitialRows, ClockStart, TRUE, TRUE))

MobileNext ==
  \/ \E cell \in PointerCells, pointerType \in PointerTypes :
       PointerDown(cell[1], cell[2], pointerType)
  \/ \E event \in MoveEvents :
       PointerMove(event.pointerId, event.point, event.found)
  \/ \E pointerId \in PointerIds : PointerUp(pointerId)
  \/ Render
  \/ DebounceFire
  \/ TapTimerFire
  \/ \E i \in 1 .. Len(writes) : ApplyWrite(i)
  \/ toggleMobileEdit
  \/ \E next \in MobileSections : handleMobileSectionChange(next)

MobileSpec == MobileInit /\ [][MobileNext]_vars

(***************************************************************************)
(* The paint mode. The user's row holds any of the cells the pointer        *)
(* reaches; the user presses with the mouse or a finger, drags and lifts,   *)
(* and changes the paint mode at any moment, also during a gesture; the     *)
(* member list is refreshed meanwhile.                                      *)
(***************************************************************************)
PaintInit ==
  \E committed \in SUBSET PointerKeys :
    Begin(Session(CommitRows(committed), ClockStart, FALSE, TRUE))

PaintNext ==
  \/ \E cell \in PointerCells, pointerType \in PointerTypes :
       PointerDown(cell[1], cell[2], pointerType)
  \/ \E cell \in PointerCells : PointerEnter(cell[1], cell[2])
  \/ \E event \in MoveEvents :
       PointerMove(event.pointerId, event.point, event.found)
  \/ \E pointerId \in PointerIds : PointerUp(pointerId)
  \/ Render
  \/ \E mode \in PaintModes : SetPaintMode(mode)
  \/ FetchStart
  \/ \E i \in 1 .. Len(fetches) : FetchDone(i)

PaintSpec == PaintInit /\ [][PaintNext]_vars

(***************************************************************************)
(* Rows of any shape. The user has just signed in; the response of the      *)
(* first fetch is under way and holds one row that need not have the shape  *)
(* of the table: the row is null, or any of its text fields is missing or   *)
(* holds a number (shown as "42"), its updated_at is a timestamp, a string  *)
(* that does not parse, null, a number or missing, and its cells are an     *)
(* object, an array, null, a string, a number or missing.                   *)
(***************************************************************************)
FeedPayloads ==
  { CellsPayload({keyFor(0, 0), keyFor(0, 1)}),
    JsonObject(<< [key |-> keyFor(0, 0), val |-> FALSE],
                  [key |-> keyFor(0, 1), val |-> TRUE] >>),
    JsonArray(<<TRUE, FALSE>>), JsonNull, JsonUndefined,
    JsonScalar("string"), JsonScalar("number") }

FeedStamps == {TsAt(ClockStart), TsBad, TsNull, TsNumber, TsUndefined}

FeedRows ==
  { [ null |-> FALSE, strings |-> strings,
      id |-> IF "id" \in strings THEN "m2" ELSE "42",
      user_id |-> IF "user_id" \in strings THEN "u2" ELSE "42",
      display_name |-> IF "display_name" \in strings THEN "Ben" ELSE "42",
      last_editor |-> IF "last_editor" \in strings THEN "Ben" ELSE "42",
      mode |-> mode, cells |-> payload, updated_at |-> stamp ] :
      strings \in SUBSET StringFields, mode \in {"available", "unavailable", "42"},
      payload \in FeedPayloads, stamp \in FeedStamps }
    \cup {[EmptyObject EXCEPT !.null = TRUE]}

FeedInit ==
  \E row \in FeedRows :
    Begin([Session(InitialRows, ClockStart, FALSE, FALSE) EXCEPT
             !.fetches = << [data |-> <<row>>, weekStartMs |-> WeekStart] >>])

FeedNext ==
  \/ \E i \in 1 .. Len(fetches) : FetchDone(i)
  \/ FetchStart

FeedSpec == FeedInit /\ [][FeedNext]_vars

(***************************************************************************)
(* The rows of the team. The user has just signed in: the first fetch and   *)
(* the select of ensureMyRow are under way. The user has a row or none, the *)
(* other user has a row in the legacy mode. The local session creates its   *)
(* row from the stored name or from the name dialog, enters view-only,      *)
(* resets and deletes; a session of the same user on another device does    *)
(* the same meanwhile.                                                      *)
(***************************************************************************)
TeamRows ==
  { [ u \in Range(UserIds) |->
        [IdentityRows[u] EXCEPT !.present = u \in having] ] :
      having \in {{"u2"}, {"u1", "u2"}} }

\* the state after the render that follows setUserId of 451: the effects at
\* 521 and 568 have sent their selects
SignedIn(rs, mobile) ==
  LET base == Session(rs, ClockStart, mobile, FALSE)
  IN  [base EXCEPT
         !.fetches = << [ data |-> RowsData(rs),
                          weekStartMs |-> base.currentWeekStartMs ] >>,
         !.ownRowChecks = << [ userId |-> base.userId, ignore |-> FALSE,
                               isViewOnlyMode |-> FALSE,
                               data |-> rs[base.userId],
                               weekStartMs |-> base.currentWeekStartMs ] >>]

TeamInit == \E rs \in TeamRows : Begin(SignedIn(rs, FALSE))

TeamNext ==
  \/ \E i \in 1 .. Len(ownRowChecks), stored \in StoredNames :
       OwnRowChecked(i, stored)
  \/ saveDisplayName("Ann")
  \/ enterViewOnly
  \/ \E confirmed \in BOOLEAN : deleteAllUsers(confirmed)
  \/ \E confirmed \in BOOLEAN : resetAllSchedules(confirmed)
  \/ \E i \in 1 .. Len(writes) : ApplyWrite(i)
  \/ FetchStart
  \/ \E i \in 1 .. Len(fetches) : FetchDone(i)
  \/ \E kind \in RemoteKinds : RemoteWrite("u1", kind)

TeamSpec == TeamInit /\ [][TeamNext]_vars

(***************************************************************************)
(* The upkeep of the rows. The user has just signed in: the first fetch and *)
(* the select of ensureMyRow are under way. The user's row is of this week, *)
(* of a week before, or in the legacy mode; the row of the other user is of *)
(* a week before or in the legacy mode. The user edits the grid with the    *)
(* mouse and saves the display name while the requests come back.           *)
(***************************************************************************)
UpkeepRows ==
  { [InitialRows EXCEPT !["u1"].mode = mine.mode,
                        !["u1"].updated_at = mine.updated_at,
                        !["u1"].cells = CellsPayload({keyFor(0, 1)}),
                        !["u2"].mode = theirs.mode,
                        !["u2"].updated_at = theirs.updated_at] :
      mine \in { [mode |-> "available", updated_at |-> TsAt(ClockStart)],
                 [mode |-> "available", updated_at |-> TsAt(WeekStart - 1)],
                 [mode |-> "unavailable", updated_at |-> TsAt(ClockStart)] },
      theirs \in { [mode |-> "available", updated_at |-> TsAt(WeekStart - 1)],
                   [mode |-> "unavailable", updated_at |-> TsAt(ClockStart - 1)] } }

UpkeepInit == \E rs \in UpkeepRows : Begin(SignedIn(rs, FALSE))

UpkeepNext ==
  \/ \E i \in 1 .. Len(ownRowChecks), stored \in StoredNames :
       OwnRowChecked(i, stored)
  \/ \E cell \in PointerCells : PointerDown(cell[1], cell[2], "mouse")
  \/ PointerUp(1)
  \/ DebounceFire
  \/ saveDisplayName("Ann")
  \/ \E i \in 1 .. Len(writes) : ApplyWrite(i)
  \/ FetchStart
  \/ \E i \in 1 .. Len(fetches) : FetchDone(i)

UpkeepSpec == UpkeepInit /\ [][UpkeepNext]_vars

(***************************************************************************)
(* The onlooker. The user's row holds any of the cells the pointer reaches; *)
(* the user paints nothing and clears nothing: pointers pressed elsewhere   *)
(* on the page are lifted or cancelled, while other sessions write to the   *)
(* row store and the member list is refreshed.                              *)
(***************************************************************************)
WatchNext ==
  \/ \E pointerId \in PointerIds : PointerUp(pointerId)
  \/ \E pointerId \in PointerIds : PointerCancel(pointerId)
  \/ Render
  \/ \E i \in 1 .. Len(writes) : ApplyWrite(i)
  \/ FetchStart
  \/ \E i \in 1 .. Len(fetches) : FetchDone(i)
  \/ \E kind \in RemoteKinds : RemoteWrite("u1", kind)

WatchSpec == PaintInit /\ [][WatchNext]_vars

(***************************************************************************)
(* The same session as in SyncSpec when nothing is left waiting: React      *)
(* renders what is queued, the timers that are set fire, the row store      *)
(* answers every request, and the poll of the effect at 521 (setInterval,   *)
(* 556-558) calls fetchMembers again and again. The user stops editing: at  *)
(* some instant, with no pointer held, the pointer events end.              *)
(***************************************************************************)
\* ENABLED Render and ENABLED of the arrival of a response, written out
RenderEnabled == NeedsRender(Client) /\ Fits(Flush(Client, Client, FALSE))

FetchDoneEnabled ==
  \E i \in 1 .. Len(fetches) :
    Fits(Flush(Client,
               [Client EXCEPT !.fetches = RemoveAt(@, i),
                              !.members = refreshMembers(fetches[i].data,
                                                         fetches[i].weekStartMs)],
               TRUE))

\* weak fairness of Render and of the responses, with ENABLED written out
RenderFair == []<>(~RenderEnabled) \/ []<><<Render>>_vars

FetchDoneFair ==
  []<>(~FetchDoneEnabled) \/ []<><<\E i \in 1 .. Len(fetches) : FetchDone(i)>>_vars

\* the user lets go of the page: no pointer event follows (history only)
StopEditing ==
  /\ ~hist.down
  /\ ~hist.stopped
  /\ Step([Client EXCEPT !.hist.stopped = TRUE])

SettleNext ==
  \/ ~hist.stopped /\ \E cell \in PointerCells, pointerType \in PointerTypes :
                         PointerDown(cell[1], cell[2], pointerType)
  \/ ~hist.stopped /\ \E cell \in PointerCells : PointerEnter(cell[1], cell[2])
  \/ ~hist.stopped /\ \E event \in MoveEvents :
                         PointerMove(event.pointerId, event.point, event.found)
  \/ ~hist.stopped /\ \E pointerId \in PointerIds : PointerUp(pointerId)
  \/ ~hist.stopped /\ \E pointerId \in PointerIds : PointerCancel(pointerId)
  \/ StopEditing
  \/ Render
  \/ DebounceFire
  \/ TapTimerFire
  \/ \E i \in 1 .. Len(writes) : ApplyWrite(i)
  \/ FetchStart
  \/ \E i \in 1 .. Len(fetches) : FetchDone(i)

\* the user stops editing
EditingStops == <>hist.stopped

SettleSpec ==
  /\ GestureInit
  /\ [][SettleNext]_vars
  /\ WF_vars(DebounceFire)
  /\ WF_vars(TapTimerFire)
  /\ WF_vars(\E i \in 1 .. Len(writes) : ApplyWrite(i))
  /\ WF_vars(FetchStart)
  /\ RenderFair
  /\ FetchDoneFair
  /\ EditingStops

(***************************************************************************)
(* The calendar. The session is open at any hour of a span of two weeks and *)
(* more; both rows were written in the hour before. Time passes, the        *)
(* interval of the effect at 415 recomputes the week boundary, and the      *)
(* selects and updates of fetchMembers and ensureMyRow come back.           *)
(***************************************************************************)
\* the boundary after WeekStart, and the last hour of the span
NextWeekStart == WeekStart + 7 * 24
LastClock == NextWeekStart + 1
Clocks == 1 .. LastClock
\* the hours that pass while the session is open
MaxHours == 2

CalendarRows(clock) ==
  [ u \in Range(UserIds) |->
      [InitialRows[u] EXCEPT !.updated_at = TsAt(clock - 1),
                             !.cells = CellsPayload({keyFor(0, 0)})] ]

\* an hour passes
ClockAdvance ==
  /\ hist.hours < MaxHours
  /\ Step([Client EXCEPT !.now = now + 1, !.hist.hours = @ + 1])

\* the state after the callback of the interval (416-421) and its render
weekBoundaryTicked ==
  Flush(Client,
        [Client EXCEPT !.currentWeekStartMs = getKstWeekStartMs(now)],
        FALSE)

weekBoundaryInterval ==
  /\ getKstWeekStartMs(now) # currentWeekStartMs
  /\ Step(weekBoundaryTicked)

CalendarInit ==
  \E clock \in Clocks : Begin(Session(CalendarRows(clock), clock, FALSE, TRUE))

CalendarNext ==
  \/ ClockAdvance
  \/ weekBoundaryInterval
  \/ \E i \in 1 .. Len(ownRowChecks) : OwnRowChecked(i, "Ann")
  \/ \E i \in 1 .. Len(writes) : ApplyWrite(i)
  \/ FetchStart
  \/ \E i \in 1 .. Len(fetches) : FetchDone(i)

CalendarSpec == CalendarInit /\ [][CalendarNext]_vars

(***************************************************************************)
(* The turn of the week. The session is open in the last hours of a week;   *)
(* the interval fires again and again, the poll calls fetchMembers again    *)
(* and again, and the row store answers every request.                      *)
(***************************************************************************)
WeekTurnInit ==
  \E clock \in (NextWeekStart - 2) .. (NextWeekStart - 1),
     theirs \in {TsAt(NextWeekStart - 3), TsAt(WeekStart - 1)} :
    Begin(Session([CalendarRows(clock) EXCEPT !["u2"].updated_at = theirs],
                  clock, FALSE, TRUE))

\* ENABLED of the interval's step and of the answer to ensureMyRow's select,
\* written out
weekBoundaryIntervalEnabled ==
  getKstWeekStartMs(now) # currentWeekStartMs /\ Fits(weekBoundaryTicked)

OwnRowCheckedEnabled ==
  \E i \in 1 .. Len(ownRowChecks) : Fits(ownRowAnswered(i, "Ann"))

\* the interval fires whatever is under way: strong fairness
weekBoundaryIntervalFair ==
  <>[](~weekBoundaryIntervalEnabled) \/ []<><<weekBoundaryInterval>>_vars

OwnRowCheckedFair ==
  \/ []<>(~OwnRowCheckedEnabled)
  \/ []<><<\E i \in 1 .. Len(ownRowChecks) : OwnRowChecked(i, "Ann")>>_vars

WeekTurnSpec ==
  /\ WeekTurnInit
  /\ [][CalendarNext]_vars
  /\ WF_vars(\E i \in 1 .. Len(writes) : ApplyWrite(i))
  /\ WF_vars(FetchStart)
  /\ FetchDoneFair
  /\ OwnRowCheckedFair
  /\ weekBoundaryIntervalFair

(***************************************************************************)
(* Properties.                                                             *)
(***************************************************************************)

\* C1: paintCell is idempotent. With cell input enabled, for every buffer the
\* session reaches, every cell of the grid and both values, painting the
\* cell twice in a row leaves the buffer that painting it once leaves, and
\* painting a cell that already has the value leaves the buffer as it is;
\* after the call the cell is in the buffer exactly if the value is true.
C1PaintIdempotent ==
  isCellInputEnabled(Client) =>
    /\ \A cell \in Grid, value \in BOOLEAN :
         LET key == keyFor(cell[1], cell[2])
             once == paintCellUpdater(pending.draftCells, key, value)
             twice == paintCellUpdater(once, key, value)
         IN  /\ twice = once
             /\ (key \in Range(pending.draftCells)) = value
                  => once = pending.draftCells
             /\ (key \in Range(once)) = value
             /\ Range(once) \ {key} = Range(pending.draftCells) \ {key}
    \* paintCell hands that updater to the buffer, the first time and again
    /\ \A cell \in PointerCells \cup {<<DAY_COUNT - 1, SLOT_COUNT - 1>>},
          value \in BOOLEAN :
         LET once == paintCell(Client, cell[1], cell[2], value, "enter")
         IN  /\ once.pending.draftCells
                  = paintCellUpdater(pending.draftCells,
                                     keyFor(cell[1], cell[2]), value)
             /\ paintCell(once, cell[1], cell[2], value, "enter").pending.draftCells
                  = once.pending.draftCells

\* a drag has entered a cell that already had the value of the drag
C1Witness ==
  /\ isCellInputEnabled(Client)
  /\ hist.repaint
  /\ pending.draftCells # <<>>

C3StaleRowsShowEmpty ==
  [][ \A i \in 1 .. Len(fetches) :
        FetchDone(i) =>
          /\ Len(members') = Len(fetches[i].data)
          /\ \A j \in 1 .. Len(fetches[i].data) :
               LET row == fetches[i].data[j]
                   at == row.updated_at
                   old == \/ at.kind = "null"
                          \/ DateGetTime(at).nan
                          \/ DateGetTime(at).ms < currentWeekStartMs
                   truthy == IF row.cells.type = "object"
                             THEN SelectSeq(row.cells.entries, LAMBDA e : e.val)
                             ELSE <<>>
                   kept == IF row.mode = "unavailable" THEN <<>>
                           ELSE [n \in 1 .. Len(truthy) |-> truthy[n].key]
               IN  /\ members'[j].user_id = row.user_id
                   /\ IF old
                      THEN members'[j].cells = <<>> /\ members'[j].is_stale
                      ELSE members'[j].cells = kept /\ ~members'[j].is_stale ]_vars

\* the list shows a member stamped exactly at the boundary with its cells
\* and a member of an earlier week, whose row holds cells, with none
C3Witness ==
  \E j, k \in 1 .. Len(members) :
    /\ members[j].updated_at = TsAt(currentWeekStartMs)
    /\ ~members[j].is_stale
    /\ members[j].cells # <<>>
    /\ members[k].is_stale
    /\ members[k].cells = <<>>
    /\ sanitizeCells(rows[members[k].user_id].cells) # <<>>

\* C4: the availability count of every key of the grid is the number of
\* members whose cells hold the key, the cells of the local user being the
\* draft buffer; for a list that is not empty the common set is the set of
\* keys whose count equals the number of members, and commonCellCount is
\* its size.
C4CountsAndCommon ==
  LET a == Aggregate(Client)
      cellsOf(i) == IF members[i].user_id = userId THEN Range(draftCells)
                    ELSE Range(members[i].cells)
      holders(key) == {i \in 1 .. Len(members) : key \in cellsOf(i)}
      everyone == {key \in GridKeys : Cardinality(holders(key)) = Len(members)}
  IN  /\ \A key \in GridKeys :
           a.availabilityCountByCell[key] = Cardinality(holders(key))
      /\ Len(members) > 0 =>
           /\ Range(a.commonCells) = everyone
           /\ a.commonCellCount = Cardinality(everyone)

\* the draft holds a key the committed cells of the user do not, and the key
\* is common to the two members
C4Witness ==
  /\ Len(members) = 2
  /\ hasMyMember(Client)
  /\ \E key \in Range(draftCells) \ Range(members[myMemberIndex(Client)].cells) :
       /\ Aggregate(Client).availabilityCountByCell[key] = 2
       /\ key \in Range(Aggregate(Client).commonCells)

\* C5: with an empty member list the common set is empty, commonCellCount
\* is 0 and no block is recommended.
C5EmptyTeam ==
  members = <<>> =>
    /\ Aggregate(Client).commonCells = <<>>
    /\ Aggregate(Client).commonCellCount = 0
    /\ Aggregate(Client).recommendedBlocks = <<>>

\* nobody is in the team and the user has chosen another minimum duration
C5Witness ==
  /\ members = <<>>
  /\ minimumDuration = 30
  /\ Aggregate(Client).commonCellCount = 0

\* C6: the recommended blocks are the maximal runs of consecutive common
\* slots of a day whose length times 30 minutes is at least minimumDuration:
\* every such run is a block, once, and there is no other block.
C6BlocksAreLongRuns ==
  LET a == Aggregate(Client)
      common == Range(a.commonCells)
      isRun(day, from, to) ==
        /\ from < to
        /\ keyFor(day, from) \in common
        /\ \A slot \in from .. (to - 1) : keyFor(day, slot) \in common
        /\ from = 0 \/ keyFor(day, from - 1) \notin common
        /\ to = SLOT_COUNT \/ keyFor(day, to) \notin common
      runs == {r \in Days \X Slots \X (1 .. SLOT_COUNT) :
                 isRun(r[1], r[2], r[3]) /\ (r[3] - r[2]) * 30 >= minimumDuration}
      expected == {[ day |-> r[1], startSlot |-> r[2], endSlot |-> r[3],
                     minutes |-> (r[3] - r[2]) * 30 ] : r \in runs}
  IN  /\ Range(a.recommendedBlocks) = expected
      /\ Len(a.recommendedBlocks) = Cardinality(expected)

\* the user holds a cell down; slots 2, 3, 4, 7, 8 and 10 of the first day
\* are common and the minimum is 60: the blocks of the day are [2,5) of 90
\* minutes and [7,9) of 60 minutes
C6Witness ==
  /\ hist.down
  /\ minimumDuration = 60
  /\ {slot \in Slots : keyFor(0, slot) \in Range(Aggregate(Client).commonCells)}
       = {2, 3, 4, 7, 8, 10}
  /\ SelectSeq(Aggregate(Client).recommendedBlocks, LAMBDA block : block.day = 0)
       = << [day |-> 0, startSlot |-> 2, endSlot |-> 5, minutes |-> 90],
            [day |-> 0, startSlot |-> 7, endSlot |-> 9, minutes |-> 60] >>

\* C7: every block lies within one day, 0 <= startSlot < endSlot <=
\* SLOT_COUNT, over common slots only; when the last slot of a day and the
\* first slot of the next are both common the two runs are judged each on
\* its own length, never on their sum.
C7BlocksStayInOneDay ==
  LET a == Aggregate(Client)
      common == Range(a.commonCells)
      blocks == Range(a.recommendedBlocks)
      tailOf(day) == CHOOSE n \in 1 .. SLOT_COUNT :
        /\ \A slot \in (SLOT_COUNT - n) .. (SLOT_COUNT - 1) :
             keyFor(day, slot) \in common
        /\ n = SLOT_COUNT \/ keyFor(day, SLOT_COUNT - n - 1) \notin common
      headOf(day) == CHOOSE n \in 1 .. SLOT_COUNT :
        /\ \A slot \in 0 .. (n - 1) : keyFor(day, slot) \in common
        /\ n = SLOT_COUNT \/ keyFor(day, n) \notin common
  IN  /\ \A block \in blocks :
           /\ block.day \in Days
           /\ 0 <= block.startSlot
           /\ block.startSlot < block.endSlot
           /\ block.endSlot <= SLOT_COUNT
           /\ \A slot \in block.startSlot .. (block.endSlot - 1) :
                keyFor(block.day, slot) \in common
      /\ \A day \in 0 .. (DAY_COUNT - 2) :
           (keyFor(day, SLOT_COUNT - 1) \in common /\ keyFor(day + 1, 0) \in common)
             => /\ \A block \in blocks :
                     block.day = day /\ block.endSlot = SLOT_COUNT
                       => /\ block.startSlot = SLOT_COUNT - tailOf(day)
                          /\ block.minutes = tailOf(day) * SLOT_MINUTES
                /\ (\E block \in blocks :
                      block.day = day /\ block.endSlot = SLOT_COUNT)
                     <=> tailOf(day) * SLOT_MINUTES >= minimumDuration
                /\ \A block \in blocks :
                     block.day = day + 1 /\ block.startSlot = 0
                       => /\ block.endSlot = headOf(day + 1)
                          /\ block.minutes = headOf(day + 1) * SLOT_MINUTES
                /\ (\E block \in blocks :
                      block.day = day + 1 /\ block.startSlot = 0)
                     <=> headOf(day + 1) * SLOT_MINUTES >= minimumDuration

\* the last two slots of a day and the first three of the next are common
\* and the minimum is 90: the three slots are a block, the two are not
C7Witness ==
  /\ minimumDuration = 90
  /\ {keyFor(2, SLOT_COUNT - 2), keyFor(2, SLOT_COUNT - 1), keyFor(3, 0),
      keyFor(3, 1), keyFor(3, 2)} \subseteq Range(Aggregate(Client).commonCells)
  /\ keyFor(3, 3) \notin Range(Aggregate(Client).commonCells)
  /\ [day |-> 3, startSlot |-> 0, endSlot |-> 3, minutes |-> 90]
       \in Range(Aggregate(Client).recommendedBlocks)
  /\ \A i \in 1 .. Len(Aggregate(Client).recommendedBlocks) :
       Aggregate(Client).recommendedBlocks[i].day # 2

\* C8: while a touch gesture is pending, a move of its pointer that stays
\* below 10 px on both axes leaves the gesture pending and edits nothing;
\* the first move that reaches 10 px on an axis makes the gesture scroll if
\* |dx| > 1.2 |dy| and paint otherwise, and paint starts drawing with the
\* value recorded at the press and gives that value to the start cell. From
\* (100,100) a move to (100,112) gives paint and a move to (112,100) scroll.
C8PendingGestureClassified ==
  (pending.touchGesture.active /\ pending.touchGesture.mode = "pending") =>
    LET gesture == pending.touchGesture
        startKey == keyFor(gesture.startDay, gesture.startSlot)
        nowhere == [hit |-> FALSE, day |-> 0, slot |-> 0]
        moved(x, y, found) ==
          handlePointerMove(Client, [ pointerId |-> gesture.pointerId,
                                      clientX |-> x, clientY |-> y,
                                      found |-> found ])
    IN  /\ \A event \in MoveEvents :
             event.pointerId = gesture.pointerId =>
               LET after == moved(event.point[1], event.point[2], event.found)
                   dx == Abs(event.point[1] - gesture.startX)
                   dy == Abs(event.point[2] - gesture.startY)
               IN  IF dx < 10 /\ dy < 10
                   THEN after.pending = pending
                   ELSE IF 10 * dx > 12 * dy
                   THEN after.pending
                          = [pending EXCEPT !.touchGesture.mode = "scroll"]
                   ELSE /\ after.pending.touchGesture
                             = [gesture EXCEPT !.mode = "paint"]
                        /\ after.pending.drawing
                             = [active |-> TRUE, value |-> gesture.value]
                        /\ (startKey \in Range(after.pending.draftCells))
                             = gesture.value
        /\ (gesture.startX = 100 /\ gesture.startY = 100) =>
             /\ moved(100, 112, nowhere).pending.touchGesture.mode = "paint"
             /\ moved(112, 100, nowhere).pending.touchGesture.mode = "scroll"

\* a gesture that was pending has become paint: drawing is on with the value
\* of the press and the start cell has it
C8Witness ==
  /\ touchGesture.active
  /\ touchGesture.mode = "paint"
  /\ ~hist.scrolled
  /\ drawing = [active |-> TRUE, value |-> touchGesture.value]
  /\ (keyFor(touchGesture.startDay, touchGesture.startSlot) \in Range(draftCells))
       = touchGesture.value

\* C9: once a touch gesture has been classified scroll, no pointer-move of
\* the rest of the gesture changes the buffer, however the moves fall
\* between the classification and the render that publishes it.
C9NoEditAfterScroll == ~hist.scrollEdit

\* C10: the commit a tap schedules carries the buffer with the edit of the
\* tap: the cell tapped has, in the buffer committed, the value the tap gave.
C10TapCommitCarriesEdit ==
  (hist.commit.kind = "tap" /\ hist.commit.tapped) => hist.commit.carriesTap

\* C11: a row whose mode is 'unavailable' becomes a member with no cells and
\* is_legacy_unavailable_mode true, whatever its cells payload, and adds
\* nothing to the availability count of any key.
C11LegacyRowsShowEmpty ==
  [][ \A i \in 1 .. Len(fetches) :
        FetchDone(i) =>
          \A j \in 1 .. Len(fetches[i].data) :
            LET row == fetches[i].data[j]
                counts == Aggregate([Client EXCEPT !.members = members',
                                                   !.draftCells = draftCells'])
                            .availabilityCountByCell
                cellsOf(k) == IF members'[k].user_id = userId
                              THEN Range(draftCells')
                              ELSE Range(members'[k].cells)
                others(key) ==
                  {k \in (1 .. Len(members')) \ {j} : key \in cellsOf(k)}
            IN  /\ members'[j].is_legacy_unavailable_mode
                     = (row.mode = "unavailable")
                /\ row.mode = "unavailable" =>
                     /\ members'[j].cells = <<>>
                     /\ members'[j].user_id # userId =>
                          \A key \in GridKeys :
                            counts[key] = Cardinality(others(key)) ]_vars

\* the list shows a member of this week in legacy mode with no cells while
\* its row holds cells
C11Witness ==
  \E j \in 1 .. Len(members) :
    /\ members[j].is_legacy_unavailable_mode
    /\ ~members[j].is_stale
    /\ members[j].cells = <<>>
    /\ rows[members[j].user_id].mode = "unavailable"
    /\ sanitizeCells(rows[members[j].user_id].cells) # <<>>

\* C12: while the member selected is not the row of the local user, or cell
\* input is disabled (mobile layout with the edit mode off), a press on a
\* cell starts no drawing and no touch gesture and changes nothing, and
\* paintCell, from whatever handler it is called, returns normally and
\* leaves the draft buffer and the cells of every member as they are.
C12DisabledInputIgnored ==
  /\ [](~isCellInputEnabled(Client) =>
          \A cell \in PointerCells \cup {<<DAY_COUNT - 1, SLOT_COUNT - 1>>},
             value \in BOOLEAN :
            paintCell(Client, cell[1], cell[2], value, "enter") = Client)
  /\ [][ (~canEditSelected(Client) \/ (isMobileViewport /\ ~mobileEditEnabled)) =>
           /\ (\E cell \in PointerCells, pointerType \in PointerTypes :
                 PointerDown(cell[1], cell[2], pointerType))
                => UNCHANGED vars
           /\ ( \/ \E cell \in PointerCells : PointerEnter(cell[1], cell[2])
                \/ \E event \in MoveEvents :
                     PointerMove(event.pointerId, event.point, event.found) )
                => /\ pending'.draftCells = pending.draftCells
                   /\ draftCells' = draftCells
                   /\ members' = members
                   /\ rows' = rows ]_vars

\* a stroke begun on the own row is still held when the row of another member
\* is selected: entering a cell of that row now paints nothing
C12Witness ==
  /\ selectedMemberIndex(Client) > 0
  /\ members[selectedMemberIndex(Client)].user_id # userId
  /\ ~isCellInputEnabled(Client)
  /\ drawing.active
  /\ pending.draftCells # <<>>
  /\ paintCell(Client, 0, 1, drawing.value, "enter") = Client

\* C13: every write of a row that the client issues (the insert of a row, the
\* commit of the cells, the update of the display name, the weekly or legacy
\* reset) names the user_id of the local identity, also when the identity
\* changed while a write or a timer was pending.
C13WritesOwnRowOnly ==
  [][ Len(writes') > Len(writes) =>
        writes'[Len(writes')].user_id \in {userId, userId'} ]_vars

\* C14: once the drag has ended and while the write of its commit is under
\* way, the draft buffer keeps the edited cells: no step replaces them by
\* the cells committed before.
C14DraftKeptWhileCommitInFlight ==
  [][ (~hist'.down /\ writes' # <<>>) =>
        Range(pending'.draftCells) = Range(pending.draftCells) ]_vars

\* C15: a pointer-up or a pointer-cancel that ends a drawing under way on
\* the user's own grid calls persistMyCells with the draft buffer of the
\* ref, and sends the write unless the buffer is set-equal to the committed
\* cells; a pointer-cancel does what a pointer-up of the same pointer does.
C15StopCommits ==
  [][ /\ \A pointerId \in PointerIds :
           PointerUp(pointerId) <=> PointerCancel(pointerId)
      /\ ( /\ drawing.active
           /\ canEditSelected(Client)
           /\ ~pending'.drawing.active
           /\ \E pointerId \in PointerIds :
                PointerUp(pointerId) \/ PointerCancel(pointerId) )
         => /\ hist'.commit.kind = "stop"
            /\ hist'.commit.wrote =
                 ~sameCells(members[myMemberIndex(Client)].cells, draftCellsRef)
            /\ IF hist'.commit.wrote
               THEN /\ Len(writes') = Len(writes) + 1
                    /\ writes'[Len(writes')].cells = draftCellsRef
                    /\ writes'[Len(writes')].user_id = userId
               ELSE writes' = writes ]_vars

\* a drawing on the own grid has been ended and its buffer, which differed
\* from the committed cells, has been sent
C15Witness ==
  /\ hist.ended
  /\ hist.commit.kind = "stop"
  /\ hist.commit.wrote
  /\ ~hist.down
  /\ ~drawing.active
  /\ writes # <<>>
  /\ writes[Len(writes)].cells = draftCellsRef

\* C16: every write of the cells, whether the debounce timer, the end of the
\* gesture or the timer of a tap sends it, carries the draft buffer as the
\* edits made so far have left it, the last edit included.
C16CommitCarriesBuffer ==
  [][ (Len(writes') > Len(writes) /\ writes'[Len(writes')].kind = "cells") =>
        Range(writes'[Len(writes')].cells) = Range(pending.draftCells) ]_vars

\* C17: the response of a fetch that read the rows before a commit of this
\* client was applied, and so holds older data than the row store, changes
\* neither the member list nor the draft buffer.
C17StaleFetchIgnored ==
  [][ \A i \in 1 .. Len(fetches) :
        (FetchDone(i) /\ fetches[i].data # RowsData(rows)) =>
          /\ members' = members
          /\ Range(pending'.draftCells) = Range(pending.draftCells) ]_vars

\* C18: the response of a fetch that arrives while a drawing is under way
\* leaves the draft buffer as it is, whatever the row of the user holds;
\* one that arrives while no drawing is under way replaces the buffer by the
\* committed cells of the user's row if the two are not set-equal, and
\* leaves it otherwise.
C18RefreshSparesDrawing ==
  [][ \A i \in 1 .. Len(fetches) : FetchDone(i) =>
        LET after == [Client EXCEPT !.members = members']
            mine == members'[myMemberIndex(after)].cells
        IN  IF pending.drawing.active \/ ~hasMyMember(after)
            THEN pending'.draftCells = pending.draftCells
            ELSE IF sameCells(pending.draftCells, mine)
            THEN pending'.draftCells = pending.draftCells
            ELSE pending'.draftCells = mine ]_vars

\* during a drag the member list has been refreshed with cells this drag
\* committed, and the buffer holds an edit they do not
C18Witness ==
  /\ drawing.active
  /\ hist.down
  /\ hasMyMember(Client)
  /\ members[myMemberIndex(Client)].cells # <<>>
  /\ ~sameCells(pending.draftCells, members[myMemberIndex(Client)].cells)

\* C19: while a user is signed in, the interval that polls the member list
\* is set: its period is 700 ms while isRealtimeSubscribed is false and
\* 10 s while it is true.
C19PollScheduled ==
  userId # "" =>
    /\ pollEvery > 0
    /\ pollEvery = IF isRealtimeSubscribed THEN 10000 ELSE 700

\* the channel has reported SUBSCRIBED and the render that followed has set
\* the slow interval
C19Witness ==
  /\ userId # ""
  /\ isRealtimeSubscribed
  /\ pollEvery = 10000

\* C20: on the mobile layout, when the section is changed away from the
\* table or the edit mode is switched off while a drawing or a touch gesture
\* is under way, the step ends both (the drawing and the gesture are
\* inactive after it) and changes no cell of the draft buffer, also when the
\* gesture was still pending.
C20ForcedStop ==
  [][ ( /\ isMobileViewport
        /\ pending.drawing.active \/ pending.touchGesture.active
        /\ \/ toggleMobileEdit
           \/ \E next \in MobileSections : handleMobileSectionChange(next)
        /\ mobileSection' # "table" \/ ~mobileEditEnabled' )
      => /\ ~pending'.drawing.active
         /\ ~pending'.touchGesture.active
         /\ pending'.draftCells = pending.draftCells
         /\ members' = members ]_vars

\* the edit mode has been switched off under a finger that had not moved:
\* the gesture is over, its cell is not in the buffer, and the timer of the
\* tap is set
C20Witness ==
  /\ isMobileViewport
  /\ ~mobileEditEnabled
  /\ hist.gestures > 0
  /\ hist.down
  /\ ~pending.touchGesture.active
  /\ ~pending.drawing.active
  /\ tapTimers # <<>>
  /\ ~Head(tapTimers).tap.on
  /\ Head(tapTimers).tap.key \notin Range(pending.draftCells)

\* C21: the value of a gesture is fixed at its first contact. A press on a
\* cell with input enabled computes the value from the paint mode of that
\* moment: in smart mode the negation of what the pressed cell displays, in
\* mark mode true, in erase mode false; a mouse press applies it to the cell
\* at once and a touch press records it in the gesture. Every value
\* paintCell applies until the next press is that value, and the gesture and
\* the drawing carry it, whatever the paint mode and the cells become
\* meanwhile.
C21ValueFixedAtFirstContact ==
  /\ [](hist.painted \subseteq {hist.value})
  /\ []((hist.down /\ pending.touchGesture.active)
          => pending.touchGesture.value = hist.value)
  /\ []((hist.down /\ pending.drawing.active)
          => pending.drawing.value = hist.value)
  /\ [][ \A cell \in PointerCells, pointerType \in PointerTypes :
           (PointerDown(cell[1], cell[2], pointerType) /\ isCellInputEnabled(Client))
             => LET shown == keyFor(cell[1], cell[2]) \in Range(displayedCells(Client))
                    expected == CASE paintMode = "smart" -> ~shown
                                  [] paintMode = "mark" -> TRUE
                                  [] paintMode = "erase" -> FALSE
                IN  /\ hist'.value = expected
                    /\ pointerType = "touch"
                         => /\ touchGesture'.active
                            /\ touchGesture'.value = expected
                            /\ touchGesture'.mode = "pending"
                    /\ pointerType = "mouse"
                         => /\ drawing'.active
                            /\ drawing'.value = expected
                            /\ (keyFor(cell[1], cell[2]) \in Range(draftCells'))
                                 = expected ]_vars

\* a drag started in another paint mode paints a further cell with the value
\* of the press after the mode was set to erase
C21Witness ==
  /\ hist.down
  /\ paintMode = "erase"
  /\ hist.value
  /\ hist.painted = {TRUE}
  /\ pending.drawing.active
  /\ pending.draftCells # draftCells
  /\ Len(pending.draftCells) > Len(draftCells)

\* C22: toMember takes a row of any shape. When the response of a fetch is
\* materialised, a row that is null or lacks a text field, or holds
\* something else in it, gives a member with the defaults: id and user_id
\* empty, the placeholder name, updated_at and last_editor null; and a cells
\* value that is missing or is not a JSON object gives no cells, while of an
\* object the keys with a truthy value are kept and the others dropped
\* (legacy and stale rows show no cells).
C22MalformedRowsGetDefaults ==
  [][ \A i \in 1 .. Len(fetches) :
        FetchDone(i) =>
          /\ Len(members') = Len(fetches[i].data)
          /\ \A j \in 1 .. Len(fetches[i].data) :
               LET row == fetches[i].data[j]
                   has(field) == ~row.null /\ field \in row.strings
                   member == toMember(row)
                   kept == {row.cells.entries[n].key :
                              n \in {k \in 1 .. Len(row.cells.entries) :
                                       row.cells.entries[k].val}}
               IN  /\ member.id = IF has("id") THEN row.id ELSE ""
                   /\ member.user_id = IF has("user_id") THEN row.user_id ELSE ""
                   /\ member.display_name =
                        IF has("display_name") THEN row.display_name
                        ELSE PLACEHOLDER_NAME
                   /\ member.last_editor =
                        IF has("last_editor") THEN Str(row.last_editor) ELSE StrNull
                   /\ member.updated_at =
                        IF ~row.null /\ row.updated_at.kind = "string"
                        THEN row.updated_at ELSE TsNull
                   /\ member.is_legacy_unavailable_mode
                        = (~row.null /\ row.mode = "unavailable")
                   /\ Range(member.cells) =
                        IF row.null \/ row.cells.type # "object"
                             \/ row.mode = "unavailable"
                        THEN {} ELSE kept
                   /\ members'[j] =
                        IF isStaleWeek(member.updated_at, fetches[i].weekStartMs)
                        THEN [member EXCEPT !.cells = <<>>, !.is_stale = TRUE]
                        ELSE member ]_vars

\* C23: one row and one member per user. Whatever the local session and the
\* other sessions do (ensureMyRow, saveDisplayName, the resets, the delete
\* of all users), in every order, the table never holds two rows with the
\* same user_id, and the member list never holds two members with the same
\* user_id.
C23OneRowPerUser ==
  /\ \A u \in Range(UserIds) :
       Cardinality({n \in 1 .. Len(RowsData(rows)) :
                      RowsData(rows)[n].user_id = u}) <= 1
  /\ \A i, j \in 1 .. Len(members) :
       members[i].user_id = members[j].user_id => i = j

\* the name dialog sent an insert while the user had a row already, and the
\* table refused it
C23Witness ==
  /\ statusMessage = STATUS_NAME_FAILED
  /\ rows[userId].present
  /\ ~hasMyMember(Client)

\* C24: in view-only mode ensureMyRow creates no row. Whenever the client
\* sends an insert while it is in view-only mode, the insert comes from
\* saveDisplayName; a run of ensureMyRow that finds no row of the user while
\* the client is in view-only mode sends nothing and shows the view-only
\* status, whatever name localStorage holds.
C24ViewOnlyCreatesNoRow ==
  [][ /\ (/\ isViewOnlyMode
          /\ Len(writes') > Len(writes)
          /\ writes'[Len(writes')].kind = "insert")
         => writes'[Len(writes')].from = "save"
      /\ \A i \in 1 .. Len(ownRowChecks), stored \in StoredNames :
           (/\ OwnRowChecked(i, stored)
            /\ isViewOnlyMode
            /\ ~ownRowChecks[i].ignore
            /\ ~ownRowChecks[i].data.present)
             => /\ writes' = writes
                /\ rows' = rows
                /\ isViewOnlyMode'
                /\ statusMessage' = STATUS_VIEW_ONLY ]_vars

\* the user entered view-only, the run of ensureMyRow that followed has
\* come back, and the user has no row and no request under way
C24Witness ==
  /\ isViewOnlyMode
  /\ ~needsNameSetup
  /\ userId # ""
  /\ ~rows[userId].present
  /\ ownRowChecks = <<>>
  /\ writes = <<>>
  /\ statusMessage = STATUS_VIEW_ONLY

\* C25: a select of fetchMembers that fails leaves the member list and the
\* draft buffer as they were and shows the fetch-failed status; a write of
\* persistMyCells that fails shows the save-failed status, leaves the rows,
\* the member list and the draft buffer as they were, and starts no other
\* request and no timer for the cells it carried.
C25FailuresChangeNothing ==
  [][ /\ \A i \in 1 .. Len(fetches) :
           FetchFail(i)
             => /\ members' = members
                /\ pending'.draftCells = pending.draftCells
                /\ rows' = rows
                /\ statusMessage' = STATUS_FETCH_FAILED
      /\ \A i \in 1 .. Len(writes) :
           (FailWrite(i) /\ writes[i].from = "persist")
             => /\ statusMessage' = STATUS_SAVE_FAILED
                /\ members' = members
                /\ rows' = rows
                /\ pending'.draftCells = pending.draftCells
                /\ writes' = RemoveAt(writes, i)
                /\ fetches' = fetches
                /\ tapTimers' = tapTimers
                \* the render of the new status arms the debounce timer
                \* only for an edit or a press it had not shown yet
                /\ \/ debounceTimer' = debounceTimer
                   \/ draftCells' # draftCells
                   \/ drawing' # drawing ]_vars

\* a refresh has failed while the list holds members and the buffer cells
C25Witness ==
  /\ statusMessage = STATUS_FETCH_FAILED
  /\ members # <<>>
  /\ pending.draftCells # <<>>

\* C26: the debounce timer of a gesture is always the one of the last
\* render: while it is set a drawing is under way and it carries the draft
\* buffer of that render, so every render of an edit replaces the timer of
\* the edit before; when it fires it is gone and it sends at most one write,
\* with the cells it carries.
C26DebounceCoalesces ==
  /\ [](debounceTimer.armed
          => drawing.active /\ debounceTimer.cells = draftCells)
  /\ [][ /\ (draftCells' # draftCells /\ drawing.active /\ debounceTimer'.armed)
           => debounceTimer'.cells = draftCells'
        /\ DebounceFire
           => /\ ~debounceTimer'.armed
              /\ \/ writes' = writes
                 \/ /\ Len(writes') = Len(writes) + 1
                    /\ SubSeq(writes', 1, Len(writes)) = writes
                    /\ writes'[Len(writes')].cells = debounceTimer.cells ]_vars

\* a drag has covered two cells and nothing has been sent yet: the timer
\* that is set carries both
C26Witness ==
  /\ debounceTimer.armed
  /\ drawing.active
  /\ Len(debounceTimer.cells) = 2
  /\ writes = <<>>
  /\ hist.gestures = 1

\* C27: a press of the mouse on a cell of the user's own grid starts the
\* drawing with the value it computed and paints the cell at once, and
\* every cell the pointer enters while the drawing is active is painted
\* with that value: as long as the button is held and the drawing goes on,
\* up to the release, the buffer is the buffer of the press plus the cells
\* covered (value true) or minus the cells covered (value false).
C27MouseDragPaintsCovered ==
  /\ []((hist.down /\ hist.pointerType = "mouse" /\ pending.drawing.active)
          => /\ pending.drawing.value = hist.value
             /\ Range(pending.draftCells) =
                  IF hist.value THEN hist.start \cup hist.covered
                  ELSE hist.start \ hist.covered)
  /\ [][ /\ \A cell \in PointerCells :
             (PointerDown(cell[1], cell[2], "mouse") /\ isCellInputEnabled(Client))
               => /\ hist'.covered = {keyFor(cell[1], cell[2])}
                  /\ hist'.value = nextValueFor(Client, cell[1], cell[2])
                  /\ drawing' = [active |-> TRUE, value |-> hist'.value]
                  /\ ObjHas(draftCells', keyFor(cell[1], cell[2])) = hist'.value
        /\ \A cell \in PointerCells :
             (PointerEnter(cell[1], cell[2]) /\ hist.down /\ hist.pointerType = "mouse")
               => /\ keyFor(cell[1], cell[2]) \in hist'.covered
                  /\ ObjHas(pending'.draftCells, keyFor(cell[1], cell[2]))
                       = hist.value ]_vars

\* a drag of the mouse in erase mode that has covered both cells of a
\* buffer that held them
C27Witness ==
  /\ hist.down
  /\ hist.pointerType = "mouse"
  /\ ~hist.value
  /\ hist.start = PointerKeys
  /\ hist.covered = PointerKeys
  /\ pending.drawing.active
  /\ pending.draftCells = <<>>

\* C28: when the user answers "cancel" to the prompt of "delete all users"
\* or of "reset all schedules", the handler does nothing: no request is
\* sent, the rows stay, and the status message, the selection, the draft
\* buffer and the member list are the ones of before.
C28CancelIsNoOp ==
  [][ (deleteAllUsers(FALSE) \/ resetAllSchedules(FALSE))
        => /\ writes' = writes
           /\ fetches' = fetches
           /\ rows' = rows
           /\ statusMessage' = statusMessage
           /\ selectedMemberId' = selectedMemberId
           /\ draftCells' = draftCells
           /\ pending' = pending
           /\ members' = members ]_vars

\* the user has declined a reset of all schedules; the members are there
\* and nothing is under way
C28Witness ==
  /\ hist.declined = "resetAll"
  /\ members # <<>>
  /\ writes = <<>>
  /\ statusMessage = STATUS_CONNECTED

\* C29: every write the client makes to the user's own row while the row is
\* in the legacy mode (the reset of ensureMyRow, the update of the display
\* name, the update of the cells) leaves the row in the mode "available":
\* the member made of the row is no longer flagged as legacy.
C29OwnWriteEndsLegacyMode ==
  [][ \A i \in 1 .. Len(writes) :
        (/\ ApplyWrite(i)
         /\ writes[i].auth = userId
         /\ writes[i].user_id = userId
         /\ writes[i].kind \in {"reset", "name", "cells"}
         /\ rows[userId].present
         /\ rows[userId].mode = "unavailable")
          => /\ rows'[userId].mode = "available"
             /\ ~toMember(RowJson(rows'[userId])).is_legacy_unavailable_mode ]_vars

\* C30: the client sends the reset of ensureMyRow only for the row of the
\* local user, and only when the row its select returned is of a week
\* before the current one or in the legacy mode; the reset empties the
\* cells, sets the mode "available" and updated_at to the instant of the
\* request, and touches no other row. A refresh of the member list sends
\* nothing and changes no row: the stale row of another member is shown
\* with no cells and stays in the store as it is.
C30ResetOnlyOwnStaleRow ==
  /\ [](\A j \in 1 .. Len(members) :
          members[j].is_stale => members[j].cells = <<>>)
  /\ [][
        /\ (/\ Len(writes') > Len(writes)
            /\ writes'[Len(writes')].kind = "reset")
             => \E i \in 1 .. Len(ownRowChecks) :
                  LET check == ownRowChecks[i]
                      request == writes'[Len(writes')]
                      existingMember == toMember(RowJson(check.data))
                  IN  /\ \E stored \in StoredNames : OwnRowChecked(i, stored)
                      /\ request.user_id = userId
                      /\ request.auth = userId
                      /\ request.updated_at = TsAt(now)
                      /\ check.data.present
                      /\ check.data.user_id = userId
                      /\ \/ isStaleWeek(existingMember.updated_at,
                                        getKstWeekStartMs(now))
                         \/ check.data.mode = "unavailable"
        /\ \A i \in 1 .. Len(writes) :
             (ApplyWrite(i) /\ writes[i].kind = "reset")
               => /\ rows'[userId].cells = CellsPayload({})
                  /\ rows'[userId].mode = "available"
                  /\ rows'[userId].updated_at = writes[i].updated_at
        /\ (FetchStart \/ \E i \in 1 .. Len(fetches) : FetchDone(i))
             => (writes' = writes /\ rows' = rows)
        /\ \A u \in Range(UserIds) \ {userId} : rows'[u] = rows[u] ]_vars

\* the reset of the user's own row is on its way while the list shows the
\* other member, whose row is of a week before, with no cells, and the
\* store still holds that row with its cells
C30Witness ==
  /\ \E i \in 1 .. Len(writes) :
       writes[i].kind = "reset" /\ writes[i].user_id = "u1"
  /\ rows["u2"].updated_at = TsAt(WeekStart - 1)
  /\ rows["u2"].cells = CellsPayload({keyFor(0, 0)})
  /\ \E j \in 1 .. Len(members) :
       /\ members[j].user_id = "u2"
       /\ members[j].is_stale
       /\ members[j].cells = <<>>

\* C31: when the user stops editing (no pointer is held and no pointer
\* event follows) and the requests are answered, the draft buffer, the cells of the
\* user's member in the list and the cells of the user's row in the store
\* become equal and stay equal.
OwnRowCells == Range(toMember(RowJson(rows[userId])).cells)

OwnMemberCells ==
  IF hasMyMember(Client) THEN Range(members[myMemberIndex(Client)].cells) ELSE {}

Converged ==
  /\ hasMyMember(Client)
  /\ Range(pending.draftCells) = OwnMemberCells
  /\ Range(draftCells) = OwnMemberCells
  /\ OwnMemberCells = OwnRowCells

Quiescent ==
  /\ hist.stopped
  /\ writes = <<>>
  /\ fetches = <<>>
  /\ tapTimers = <<>>
  /\ ~debounceTimer.armed
  /\ ~NeedsRender(Client)
  /\ Converged

C32NoEditLost == Quiescent => OwnRowCells = hist.expected

\* C33: once the channel has reported SUBSCRIBED the client keeps it: the
\* channel is removed (and another one created) only when the channel
\* reports an error or the user or the week boundary changes, and the
\* subscribed flag the callback set is not taken back otherwise.
C33SubscriptionKept ==
  [][ (/\ channel = "joined"
       /\ ~ChannelError
       /\ userId' = userId
       /\ currentWeekStartMs' = currentWeekStartMs)
        => /\ channel' = "joined"
           /\ pending.isRealtimeSubscribed => pending'.isRealtimeSubscribed ]_vars

\* C34: the reset of ensureMyRow never erases cells committed in the current
\* week: when the user has committed cells in this session and the store
\* applies a reset to the row, which holds cells, is in the mode "available"
\* and has an updated_at that is not before the week boundary, the cells of
\* the row stay.
C34ResetSparesCurrentCells ==
  [][ \A i \in 1 .. Len(writes) :
        (/\ ApplyWrite(i)
         /\ hist.commit.wrote
         /\ OwnRowCells # {}
         /\ writes[i].kind = "reset"
         /\ writes[i].from = "ensure"
         /\ rows[writes[i].user_id].present
         /\ rows[writes[i].user_id].mode = "available"
         /\ ~isStaleWeek(toMember(RowJson(rows[writes[i].user_id])).updated_at,
                         currentWeekStartMs))
          => rows'[writes[i].user_id].cells = rows[writes[i].user_id].cells ]_vars

\* C35: a session without a local edit (no press, no clear) sends no cells
\* update: no request of persistMyCells is ever waiting at the row store.
C35NoEditNoCellsWrite ==
  (hist.gestures = 0 /\ hist.commit.kind # "clear")
    => \A i \in 1 .. Len(writes) : writes[i].from # "persist"

\* C36: every gesture ends idle: the pointer-up or pointer-cancel of the
\* pointer that pressed leaves drawing.active false and the touch gesture
\* inactive, in the mode "pending" and without a pointer id, in the state,
\* in what is queued and in the ref, whatever the gesture was doing.
C36GestureEndsIdle ==
  [][ (PointerUp(1) \/ PointerCancel(1))
        => /\ ~drawing'.active
           /\ ~pending'.drawing.active
           /\ touchGesture' = NoGesture
           /\ pending'.touchGesture = NoGesture
           /\ touchGestureRef' = NoGesture ]_vars

\* a touch gesture that painted along a drag has ended
C36Witness ==
  /\ hist.gestures > 0
  /\ hist.pointerType = "touch"
  /\ ~hist.down
  /\ hist.ended
  /\ Cardinality(hist.covered) > 1
  /\ ~drawing.active
  /\ touchGesture = NoGesture

\* C37: while a touch gesture is active (in the ref the handlers read, and
\* not ended by an update that waits for its render), a pointer-move,
\* pointer-up or pointer-cancel of another pointer changes nothing: the
\* buffer, the gesture and the drawing stay as they are queued, and no write
\* and no commit timer is added.
C37ForeignPointerIgnored ==
  [][ (/\ touchGestureRef.active
       /\ pending.touchGesture.active
       /\ touchGestureRef.pointerId # 2
       /\ \/ PointerUp(2)
          \/ PointerCancel(2)
          \/ \E event \in MoveEvents :
               /\ event.pointerId = 2
               /\ PointerMove(event.pointerId, event.point, event.found))
        => /\ pending'.draftCells = pending.draftCells
           /\ pending'.touchGesture = pending.touchGesture
           /\ pending'.drawing = pending.drawing
           /\ writes' = writes
           /\ tapTimers' = tapTimers ]_vars

\* another pointer was lifted during a touch gesture that is painting
C37Witness ==
  /\ hist.foreign
  /\ hist.down
  /\ touchGestureRef.active
  /\ touchGestureRef.mode = "paint"
  /\ drawing.active

\* C38: getKstWeekStartMs(now) is the most recent Sunday 00:00 KST: it is not
\* after now, less than 7 days before now, and an instant that is 00:00 of
\* a Sunday on the KST clock (1970-01-04, the day 3 of the epoch, was a
\* Sunday). The state holds the value the useState initialiser (327) or the
\* interval (418) computed, or one of an earlier hour.
C38WeekStartIsLastSunday ==
  LET start == getKstWeekStartMs(now)
  IN  /\ start <= now
      /\ now - start < 7 * 24
      /\ (start + KST_OFFSET_H - 3 * 24) % (7 * 24) = 0
      /\ currentWeekStartMs <= start
      /\ (currentWeekStartMs + KST_OFFSET_H - 3 * 24) % (7 * 24) = 0

\* the interval has moved the boundary at the very hour of the turn: the
\* list on the page is still the one fetched under the boundary before
C38Witness ==
  /\ now = NextWeekStart
  /\ currentWeekStartMs = now
  /\ \E i \in 1 .. Len(members) :
       ~members[i].is_stale /\ isStaleWeek(members[i].updated_at, now)

\* C39: after the week boundary has advanced, the interval updates
\* currentWeekStartMs and the list is fetched against it: from some instant
\* on the boundary is the one of the clock, and every member of the list
\* whose updated_at is before it is shown as stale with no cells.
WeekTurned == currentWeekStartMs = getKstWeekStartMs(now)

StalePresented ==
  \A i \in 1 .. Len(members) :
    isStaleWeek(members[i].updated_at, getKstWeekStartMs(now))
      => members[i].is_stale /\ members[i].cells = <<>>

C39StaleAfterWeekTurn == <>[](WeekTurned /\ StalePresented)

\* the week has turned: the other user's row, written the week before, still
\* holds its cells in the store and is shown as stale and empty
C39Witness ==
  /\ currentWeekStartMs = NextWeekStart
  /\ Range(toMember(RowJson(rows["u2"])).cells) # {}
  /\ \E i \in 1 .. Len(members) :
       /\ members[i].user_id = "u2"
       /\ members[i].is_stale
       /\ members[i].cells = <<>>
====
